---- MODULE Spec2Model ----
(***************************************************************************)
(* Event router (Core_AGameMode._internal), player registry                *)
(* (CorePlayer_APlayerManager) and listener bus (CorePlayer_APlayer,       *)
(* Core_AGameMode.addListener/removeListener/emit) of the BF6 portal       *)
(* scripting template.                                                     *)
(*                                                                         *)
(* The host engine calls one entry point at a time, to completion; every   *)
(* entry point is one action.  What an entry point called (listener        *)
(* capabilities, mode hooks, factories), in call order, is kept in `trace` *)
(* for the entry point that ran last, each call with the registry and the  *)
(* heap the callee could observe at that moment.                           *)
(***************************************************************************)
EXTENDS Integers, Sequences, FiniteSets, TLC

\* ------------------------------------------------------------------------
\* Bounds
\* ------------------------------------------------------------------------

\* host-assigned player ids are 1..MaxId
MaxId == 3

\* host player handles are 1..MaxHandle
MaxHandle == 3

\* number of CorePlayer_APlayer instances ever constructed
MaxInst == 3

\* longest listener list of one subject
MaxListeners == 2

\* opaque event payload values are 1..MaxArg
MaxArg == 2

\* longest list of observers of the mode
MaxObservers == 3

Ids == 1..MaxId

Handles == 1..MaxHandle

ArgVals == 1..MaxArg

\* ------------------------------------------------------------------------
\* Values
\* ------------------------------------------------------------------------

\* JS undefined, for an absent CorePlayer_APlayer reference
Undefined == 0

\* mod.GetObjId: the id a handle carries (host black box).  An id is not
\* the number of its handle; handles h and h + MaxId carry the same id
GetObjId(h) == MaxId - ((h - 1) % MaxId)

\* the capabilities of CorePlayer_IPlayerEvents
PlayerEventNames ==
    { "OnPlayerJoinGame", "OnPlayerLeaveGame", "OnPlayerDeployed",
      "OnPlayerDied", "OnPlayerUndeploy", "OnPlayerDamaged",
      "OnPlayerEarnedKill", "OnPlayerEarnedKillAssist", "OnMandown",
      "OnRevived", "OnPlayerInteract", "OnPlayerEnterAreaTrigger",
      "OnPlayerExitAreaTrigger", "OnPlayerEnterCapturePoint",
      "OnPlayerExitCapturePoint", "OnPlayerEnterVehicle",
      "OnPlayerExitVehicle", "OnPlayerEnterVehicleSeat",
      "OnPlayerExitVehicleSeat", "OnPlayerSwitchTeam",
      "OnPlayerUIButtonEvent", "OnRayCastHit", "OnRayCastMissed",
      "OnSpawnerSpawned", "OnAIMoveToFailed", "OnAIMoveToRunning",
      "OnAIMoveToSucceeded", "OnAIWaypointIdleFailed",
      "OnAIWaypointIdleRunning", "OnAIWaypointIdleSucceeded",
      "OnAIParachuteRunning", "OnAIParachuteSucceeded", "OngoingPlayer" }

\* no listener object
NoListener == <<"none", 0>>

\* the listener object the Example_Player constructor subscribes: a fresh
\* object literal per instance
CtorListener(inst) == <<"ctor", inst>>

\* the listener objects game code subscribes to a player
PlayerListeners == { <<"user", 1>> }

\* the observer objects game code subscribes to the mode
\* (CorePlayer_IGameModeEvents, whose only capability OngoingGlobal is
\* optional): two that implement OngoingGlobal and one that does not
ModeListeners == { <<"observer", 1>>, <<"observer", 2>>, <<"bare", 1>> }

\* the object the constructor of the n-th Example_FooClass subscribes to
\* the mode: { OngoingGlobal: () => this.onTick() }
FooListener(n) == <<"foo", n>>

\* the capabilities a listener object implements: the constructor's object
\* has OnPlayerDeployed and OnPlayerDied, game code's object every
\* capability of CorePlayer_IPlayerEvents, an observer and the object of an
\* Example_FooClass OngoingGlobal
Caps(l) ==
    CASE l[1] = "ctor" -> {"OnPlayerDeployed", "OnPlayerDied"}
      [] l[1] = "user" -> PlayerEventNames
      [] l[1] \in {"observer", "foo"} -> {"OngoingGlobal"}
      [] l[1] \in {"removesUser", "addsUser"} -> {"OnPlayerDeployed"}
      [] l[1] \in {"removesObserver", "addsObserver"} -> {"OngoingGlobal"}
      [] OTHER -> {}

\* what the callback of a listener object does to the bus it is subscribed
\* to while it runs: a "removesUser" object calls removeListener and an
\* "addsUser" object addListener with game code's object of that number on
\* its player, a "removesObserver" and an "addsObserver" object do so with
\* the observer of that number on the mode; every other callback leaves
\* the bus alone
Effect(l) ==
    CASE l[1] = "removesUser" -> [op |-> "remove", target |-> <<"user", l[2]>>]
      [] l[1] = "addsUser" -> [op |-> "add", target |-> <<"user", l[2]>>]
      [] l[1] = "removesObserver" ->
            [op |-> "remove", target |-> <<"observer", l[2]>>]
      [] l[1] = "addsObserver" ->
            [op |-> "add", target |-> <<"observer", l[2]>>]
      [] OTHER -> [op |-> "none", target |-> NoListener]

VARIABLES
    playerManager,  \* Core_AGameMode.playerManager: Undefined, or the
                    \* manager with its `players` Map (insertion ordered)
    heap,           \* every CorePlayer_APlayer constructed so far
    listeners,      \* Core_AGameMode.listeners: the mode's observers
    valid,          \* host liveness of each handle (mod.IsPlayerValid)
    event,          \* the entry point or API call that ran last
    trace,          \* the calls it made, in order
    threw,          \* whether it raised an error
    before,         \* playerManager and heap as they were when it started
    joinLog,        \* the joins so far: id, player created, player passed
                    \* to the join hook (kept by the join-only specification)
    lastCalls,      \* the last calls made, oldest first: name and id
                    \* (kept by the join-and-leave specification), or the
                    \* call of main.ts that is running: name and arguments
                    \* (kept by the main.ts specification)
    clock,          \* the last reading of Date.now(), 0 before the first
    lastTime,       \* Example_FooClass.lastTime of every Example_FooClass
                    \* constructed, in order of construction
    ranAt           \* per Example_FooClass, the readings at which its
                    \* throttled action ran: the last two, oldest first
                    \* (the three are kept by the throttle specification)

vars ==
    <<playerManager, heap, listeners, valid, event, trace, threw, before,
      joinLog, lastCalls, clock, lastTime, ranAt>>

\* the clock and the Example_FooClass objects
fooVars == <<clock, lastTime, ranAt>>

\* ------------------------------------------------------------------------
\* The players Map of CorePlayer_APlayerManager: a sequence of entries
\* [id, lp] in insertion order, at most one entry per id
\* ------------------------------------------------------------------------

MapHas(m, id) == \E i \in 1..Len(m) : m[i].id = id

\* Map.get: the value under id, or undefined
MapGet(m, id) ==
    IF MapHas(m, id)
    THEN m[CHOOSE i \in 1..Len(m) : m[i].id = id].lp
    ELSE Undefined

\* Map.set: replaces the value of an existing key in place, appends a new key
MapSet(m, id, lp) ==
    IF MapHas(m, id)
    THEN [i \in 1..Len(m) |->
            IF m[i].id = id THEN [id |-> id, lp |-> lp] ELSE m[i]]
    ELSE Append(m, [id |-> id, lp |-> lp])

\* Map.delete
MapDelete(m, id) == SelectSeq(m, LAMBDA e : e.id # id)

\* ------------------------------------------------------------------------
\* Calls observed by game code
\* ------------------------------------------------------------------------

\* One call made by an entry point.  kind is "emit" (emit on a player's
\* bus), "listener" (a capability of a subscribed listener object), "hook"
\* (a protected hook of the mode) or "create" (a factory).  subject is the
\* player whose bus emitted, lp the
\* CorePlayer_APlayer argument, other the counterpart argument, args the
\* payload arguments; players and listenersOf are the registry and every
\* player's listener list as the callee can read them during the call.
Call(kind, name, subject, listener, lp, other, args, players, hp) ==
    [kind |-> kind, name |-> name, subject |-> subject,
     listener |-> listener, lp |-> lp, other |-> other, args |-> args,
     players |-> players,
     listenersOf |-> [i \in 1..Len(hp) |-> hp[i].listeners]]

\* the entry point (or API call) that ran last and its arguments
Event(name, player, other, number, args, lp, listener) ==
    [name |-> name, player |-> player, other |-> other, number |-> number,
     args |-> args, lp |-> lp, listener |-> listener]

\* ------------------------------------------------------------------------
\* CorePlayer_APlayer
\* ------------------------------------------------------------------------

\* the constructor of Example_Player: stores the handle and subscribes its
\* own listener object
NewPlayer(h, inst) == [player |-> h, listeners |-> <<CtorListener(inst)>>]

\* Example_PlayerManager.createPlayer: the new instance is heap cell
\* Len(hp) + 1
createPlayer(hp, h) == Append(hp, NewPlayer(h, Len(hp) + 1))

\* CorePlayer_APlayer.addListener
addListener(ls, l) == Append(ls, l)

\* removeListener comparing the callbacks instead of the object: every
\* listener with the same capabilities is removed
removeListener_Structural(ls, l) ==
    SelectSeq(ls, LAMBDA x : Caps(x) # Caps(l))

\* removeListener dropping one subscription of the object, the first
\* (splice at indexOf instead of filter)
removeListener_FirstOnly(ls, l) ==
    IF \E i \in 1..Len(ls) : ls[i] = l
    THEN LET i == CHOOSE i \in 1..Len(ls) :
                     /\ ls[i] = l
                     /\ \A m \in 1..(i - 1) : ls[m] # l
         IN  SubSeq(ls, 1, i - 1) \o SubSeq(ls, i + 1, Len(ls))
    ELSE ls

\* CorePlayer_APlayer.removeListener
removeListener(ls, l) == SelectSeq(ls, LAMBDA x : x # l)

RECURSIVE pass_LiveRemove(_, _, _, _, _)
\* the loop with a removeListener that removes from the array in place
\* (splice instead of filter): the loop goes on over the shortened array
pass_LiveRemove(i, arr, cur, same, name) ==
    IF i > Len(arr)
    THEN [calls |-> <<>>, listeners |-> arr]
    ELSE LET l == arr[i]
             called == name \in Caps(l)
             op == IF called THEN Effect(l).op ELSE "none"
             target == Effect(l).target
             arr1 == IF op = "add"
                     THEN addListener(arr, target)
                     ELSE IF op = "remove"
                     THEN removeListener(arr, target)
                     ELSE arr
             r == pass_LiveRemove(i + 1, arr1, cur, same, name)
         IN  [calls |-> (IF called
                         THEN <<[listener |-> l, listeners |-> arr]>>
                         ELSE <<>>) \o r.calls,
              listeners |-> r.listeners]

RECURSIVE pass_StopAtMissing(_, _, _, _, _)
\* the loop leaving at the first listener that does not implement the
\* capability (return instead of going on to the next listener)
pass_StopAtMissing(i, arr, cur, same, name) ==
    IF i > Len(arr) \/ name \notin Caps(arr[i])
    THEN [calls |-> <<>>, listeners |-> IF same THEN arr ELSE cur]
    ELSE LET l == arr[i]
             now == IF same THEN arr ELSE cur
             op == Effect(l).op
             target == Effect(l).target
             arr1 == IF op = "add" /\ same
                     THEN addListener(arr, target)
                     ELSE arr
             cur1 == IF op = "remove"
                     THEN removeListener(now, target)
                     ELSE IF op = "add" /\ ~same
                     THEN addListener(cur, target)
                     ELSE cur
             same1 == same /\ op # "remove"
             r == pass_StopAtMissing(i + 1, arr1, cur1, same1, name)
         IN  [calls |-> <<[listener |-> l, listeners |-> now]>> \o r.calls,
              listeners |-> r.listeners]

RECURSIVE pass(_, _, _, _, _)
\* the loop `for (const listener of this.listeners)` of emit, from position
\* i.  arr is the array the loop iterates, the one this.listeners referred
\* to when the loop started; the iterator reads its length at every step.
\* same tells whether this.listeners still refers to arr, cur is the
\* array this.listeners refers to if it does not.  A callback's
\* addListener pushes onto the array this.listeners refers to; a callback's
\* removeListener makes this.listeners refer to a new, filtered array and
\* leaves arr alone.  Gives the listeners called, in order, each with
\* this.listeners as it is when the callback starts, and this.listeners
\* after the loop.
pass(i, arr, cur, same, name) ==
    IF i > Len(arr)
    THEN [calls |-> <<>>, listeners |-> IF same THEN arr ELSE cur]
    ELSE LET l == arr[i]
             now == IF same THEN arr ELSE cur
             called == name \in Caps(l)
             op == IF called THEN Effect(l).op ELSE "none"
             target == Effect(l).target
             arr1 == IF op = "add" /\ same
                     THEN addListener(arr, target)
                     ELSE arr
             cur1 == IF op = "remove"
                     THEN removeListener(now, target)
                     ELSE IF op = "add" /\ ~same
                     THEN addListener(cur, target)
                     ELSE cur
             same1 == same /\ op # "remove"
             r == pass(i + 1, arr1, cur1, same1, name)
         IN  [calls |-> (IF called
                         THEN <<[listener |-> l, listeners |-> now]>>
                         ELSE <<>>) \o r.calls,
              listeners |-> r.listeners]

\* CorePlayer_APlayer.emit: the named capability of every listener that
\* implements it, in the order the loop reaches them; gives the calls made
\* and the heap afterwards
emitPass(hp, subject, name, lp, other, args, players) ==
    LET r == pass(1, hp[subject].listeners, <<>>, TRUE, name)
    IN  [trace |->
            <<Call("emit", name, subject, NoListener, lp, other, args,
                   players, hp)>>
            \o [k \in 1..Len(r.calls) |->
                   Call("listener", name, subject, r.calls[k].listener, lp,
                        other, args, players,
                        [hp EXCEPT ![subject].listeners =
                                       r.calls[k].listeners])],
         heap |-> [hp EXCEPT ![subject].listeners = r.listeners]]

\* CorePlayer_APlayer.emit as the manager and the router use it: the calls
\* made.  The listener objects subscribed where they emit (the
\* constructor's and game code's plain object) leave the bus alone, so the
\* heap afterwards is the heap before
emit(hp, subject, name, lp, other, args, players) ==
    emitPass(hp, subject, name, lp, other, args, players).trace

\* ------------------------------------------------------------------------
\* CorePlayer_APlayerManager
\* ------------------------------------------------------------------------

RECURSIVE notifyOthers_Self(_, _, _, _)
\* the loop of addPlayer without the test other !== lp: the new player's
\* own bus is emitted to as well
notifyOthers_Self(i, players, hp, lp) ==
    IF i > Len(players)
    THEN <<>>
    ELSE emit(hp, players[i].lp, "OnPlayerJoinGame", lp, Undefined, <<>>,
              players)
         \o notifyOthers_Self(i + 1, players, hp, lp)

RECURSIVE notifyOthers(_, _, _, _)
\* the loop of addPlayer over players.values() from position i: every
\* other player's OnPlayerJoinGame listeners, with the new player
notifyOthers(i, players, hp, lp) ==
    IF i > Len(players)
    THEN <<>>
    ELSE (IF players[i].lp # lp
          THEN emit(hp, players[i].lp, "OnPlayerJoinGame", lp, Undefined,
                    <<>>, players)
          ELSE <<>>)
         \o notifyOthers(i + 1, players, hp, lp)

\* addPlayer with the notification loop before players.set: the peers are
\* notified while the registry does not have the new player yet
addPlayer_BroadcastFirst(players, hp, h) ==
    LET id == GetObjId(h)
        found == MapGet(players, id)
    IN  IF found # Undefined
        THEN [players |-> players, heap |-> hp, lp |-> found,
              trace |-> <<>>]
        ELSE LET lp == Len(hp) + 1
                 hp1 == createPlayer(hp, h)
                 players1 == MapSet(players, id, lp)
             IN  [players |-> players1, heap |-> hp1, lp |-> lp,
                  trace |-> <<Call("create", "createPlayer", Undefined,
                                   NoListener, lp, Undefined, <<>>,
                                   players, hp1)>>
                            \o notifyOthers(1, players, hp1, lp)]

\* addPlayer with the notification loop outside the test: the peers are
\* notified of an existing player as well
addPlayer_RenotifyExisting(players, hp, h) ==
    LET id == GetObjId(h)
        found == MapGet(players, id)
    IN  IF found # Undefined
        THEN [players |-> players, heap |-> hp, lp |-> found,
              trace |-> notifyOthers(1, players, hp, found)]
        ELSE LET lp == Len(hp) + 1
                 hp1 == createPlayer(hp, h)
                 players1 == MapSet(players, id, lp)
             IN  [players |-> players1, heap |-> hp1, lp |-> lp,
                  trace |-> <<Call("create", "createPlayer", Undefined,
                                   NoListener, lp, Undefined, <<>>,
                                   players, hp1)>>
                            \o notifyOthers(1, players1, hp1, lp)]

\* addPlayer that takes a removed player of the same id back into the
\* registry instead of creating one
addPlayer_ReuseRemoved(players, hp, h) ==
    LET id == GetObjId(h)
        found == MapGet(players, id)
        old == { i \in 1..Len(hp) : GetObjId(hp[i].player) = id }
    IN  IF found # Undefined
        THEN [players |-> players, heap |-> hp, lp |-> found,
              trace |-> <<>>]
        ELSE IF old # {}
        THEN LET lp == CHOOSE i \in old : TRUE
                 players1 == MapSet(players, id, lp)
             IN  [players |-> players1, heap |-> hp, lp |-> lp,
                  trace |-> notifyOthers(1, players1, hp, lp)]
        ELSE LET lp == Len(hp) + 1
                 hp1 == createPlayer(hp, h)
                 players1 == MapSet(players, id, lp)
             IN  [players |-> players1, heap |-> hp1, lp |-> lp,
                  trace |-> <<Call("create", "createPlayer", Undefined,
                                   NoListener, lp, Undefined, <<>>,
                                   players, hp1)>>
                            \o notifyOthers(1, players1, hp1, lp)]

\* addPlayer without players.set: the new player is created and announced
\* but not stored
addPlayer_NoSet(players, hp, h) ==
    LET id == GetObjId(h)
        found == MapGet(players, id)
    IN  IF found # Undefined
        THEN [players |-> players, heap |-> hp, lp |-> found,
              trace |-> <<>>]
        ELSE LET lp == Len(hp) + 1
                 hp1 == createPlayer(hp, h)
             IN  [players |-> players, heap |-> hp1, lp |-> lp,
                  trace |-> <<Call("create", "createPlayer", Undefined,
                                   NoListener, lp, Undefined, <<>>,
                                   players, hp1)>>
                            \o notifyOthers(1, players, hp1, lp)]

\* addPlayer without the test for an existing entry: every join creates
\* and stores a player
addPlayer_AlwaysCreate(players, hp, h) ==
    LET id == GetObjId(h)
        lp == Len(hp) + 1
        hp1 == createPlayer(hp, h)
        players1 == MapSet(players, id, lp)
    IN  [players |-> players1, heap |-> hp1, lp |-> lp,
         trace |-> <<Call("create", "createPlayer", Undefined, NoListener,
                          lp, Undefined, <<>>, players, hp1)>>
                   \o notifyOthers(1, players1, hp1, lp)]

\* addPlayer: the registry, the heap, the returned player and the calls made
addPlayer(players, hp, h) ==
    LET id == GetObjId(h)
        found == MapGet(players, id)
    IN  IF found # Undefined
        THEN [players |-> players, heap |-> hp, lp |-> found,
              trace |-> <<>>]
        ELSE LET lp == Len(hp) + 1
                 hp1 == createPlayer(hp, h)
                 players1 == MapSet(players, id, lp)
             IN  [players |-> players1, heap |-> hp1, lp |-> lp,
                  trace |-> <<Call("create", "createPlayer", Undefined,
                                   NoListener, lp, Undefined, <<>>,
                                   players, hp1)>>
                            \o notifyOthers(1, players1, hp1, lp)]

\* removePlayer without lp.listeners = []: the entry is deleted, the
\* listeners stay subscribed
removePlayer_NoDetach(players, hp, playerId) ==
    [players |-> MapDelete(players, playerId), heap |-> hp]

\* removePlayer without players.delete: the listeners are detached, the
\* entry stays
removePlayer_NoDelete(players, hp, playerId) ==
    LET lp == MapGet(players, playerId)
    IN  [players |-> players,
         heap |-> IF lp # Undefined
                  THEN [hp EXCEPT ![lp].listeners = <<>>]
                  ELSE hp]

\* removePlayer with players.clear() for players.delete(playerId): every
\* entry is dropped
removePlayer_ClearAll(players, hp, playerId) ==
    LET lp == MapGet(players, playerId)
    IN  [players |-> <<>>,
         heap |-> IF lp # Undefined
                  THEN [hp EXCEPT ![lp].listeners = <<>>]
                  ELSE hp]

\* removePlayer: the registry and the heap afterwards
removePlayer(players, hp, playerId) ==
    LET lp == MapGet(players, playerId)
    IN  [players |-> MapDelete(players, playerId),
         heap |-> IF lp # Undefined
                  THEN [hp EXCEPT ![lp].listeners = <<>>]
                  ELSE hp]

\* get with the handle itself as key instead of mod.GetObjId(player)
get_KeyByHandle(players, h) ==
    IF ~valid[h] THEN Undefined ELSE MapGet(players, h)

\* get without the liveness check
get_NoLivenessCheck(players, h) == MapGet(players, GetObjId(h))

\* get: undefined for a handle the host reports invalid
get(players, h) ==
    IF ~valid[h] THEN Undefined ELSE MapGet(players, GetObjId(h))

\* getById with the liveness check of get: undefined for an entry whose
\* handle the host reports invalid
getById_LivenessCheck(players, id) ==
    LET lp == MapGet(players, id)
    IN  IF lp # Undefined /\ ~valid[heap[lp].player] THEN Undefined ELSE lp

\* getById
getById(players, id) == MapGet(players, id)

\* tick: emits OngoingPlayer to the player the handle resolves to
tick(players, hp, h) ==
    LET lp == get(players, h)
    IN  IF lp # Undefined
        THEN emit(hp, lp, "OngoingPlayer", Undefined, Undefined, <<>>,
                  players)
        ELSE <<>>

\* the per-event methods emitting on the bus of the other player as well,
\* when there is one
notify_AlsoOther(players, hp, name, lp, other, args) ==
    emit(hp, lp, name, Undefined, other, args, players)
    \o (IF other # Undefined
        THEN emit(hp, other, name, Undefined, lp, args, players)
        ELSE <<>>)

\* the per-event methods OnPlayerDeployed .. OnAIWaypointIdleSucceeded:
\* each emits the capability of its own name to the acting player's
\* listeners with the arguments after lp
notify(players, hp, name, lp, other, args) ==
    emit(hp, lp, name, Undefined, other, args, players)

\* ------------------------------------------------------------------------
\* Core_AGameMode: the router _internal
\* ------------------------------------------------------------------------

\* the payload tuples the host passes to an entry point with n payload
\* parameters: the values differ by position
ArgTuples(n) ==
    { [i \in 1..n |-> ((i + k) % MaxArg) + 1] : k \in 0..(MaxArg - 1) }

\* a protected hook of the mode called with (lp, other, args)
Hook(name, lp, other, args, players, hp) ==
    Call("hook", name, Undefined, NoListener, lp, other, args, players, hp)

\* no call is running: control is with the host
Idle == Event("idle", 0, 0, 0, <<>>, Undefined, NoListener)

\* playerManager, heap and the mode's observers at the start of the running
\* call
Before ==
    [playerManager |-> playerManager, heap |-> heap, listeners |-> listeners]

\* no call is running: nothing is recorded
NoBefore ==
    [playerManager |-> [defined |-> FALSE, players |-> <<>>], heap |-> <<>>,
     listeners |-> <<>>]

\* the entry point returns normally
Return(ev, tr, players, hp) ==
    /\ event' = ev
    /\ trace' = tr
    /\ threw' = FALSE
    /\ before' = Before
    /\ playerManager' = [playerManager EXCEPT !.players = players]
    /\ heap' = hp
    /\ UNCHANGED <<listeners, valid>>

\* the entry point raises a TypeError: this.playerManager is undefined
\* where lp() or lpId() reads a property of it
Throw(ev) ==
    /\ event' = ev
    /\ trace' = <<>>
    /\ threw' = TRUE
    /\ before' = Before
    /\ UNCHANGED <<playerManager, heap, listeners, valid>>

\* the shape with the manager call left out: only the hook is called
SinglePlayerRoute_NoNotify(name, eventPlayer, args) ==
    LET ev == Event(name, eventPlayer, 0, 0, args, Undefined, NoListener)
        players == playerManager.players
        lp == get(players, eventPlayer)
    IN  IF ~playerManager.defined
        THEN Throw(ev)
        ELSE IF lp = Undefined
        THEN Return(ev, <<>>, players, heap)
        ELSE Return(ev, <<Hook(name, lp, Undefined, args, players, heap)>>,
                    players, heap)

\* the shape with the two calls swapped: the hook runs before the listeners
SinglePlayerRoute_HookFirst(name, eventPlayer, args) ==
    LET ev == Event(name, eventPlayer, 0, 0, args, Undefined, NoListener)
        players == playerManager.players
        lp == get(players, eventPlayer)
    IN  IF ~playerManager.defined
        THEN Throw(ev)
        ELSE IF lp = Undefined
        THEN Return(ev, <<>>, players, heap)
        ELSE Return(ev,
                    <<Hook(name, lp, Undefined, args, players, heap)>>
                    \o notify(players, heap, name, lp, Undefined, args),
                    players, heap)

\* the shape of the entry points with one player: resolve the acting
\* player with lp(), drop the event if it does not resolve, else notify its
\* listeners through the manager and call the hook
SinglePlayerRoute(name, eventPlayer, args) ==
    LET ev == Event(name, eventPlayer, 0, 0, args, Undefined, NoListener)
        players == playerManager.players
        lp == get(players, eventPlayer)
    IN  IF ~playerManager.defined
        THEN Throw(ev)
        ELSE IF lp = Undefined
        THEN Return(ev, <<>>, players, heap)
        ELSE Return(ev,
                    notify(players, heap, name, lp, Undefined, args)
                    \o <<Hook(name, lp, Undefined, args, players, heap)>>,
                    players, heap)

\* the shape with the other player standing in for an acting player that
\* does not resolve: the hook is called with the other player
TwoPlayerRoute_ActOnOther(name, eventPlayer, eventOtherPlayer, args) ==
    LET ev == Event(name, eventPlayer, eventOtherPlayer, 0, args, Undefined,
                    NoListener)
        players == playerManager.players
        lp == get(players, eventPlayer)
        other == get(players, eventOtherPlayer)
    IN  IF ~playerManager.defined
        THEN Throw(ev)
        ELSE IF lp = Undefined /\ other = Undefined
        THEN Return(ev, <<>>, players, heap)
        ELSE IF lp = Undefined
        THEN Return(ev,
                    <<Hook(name, other, Undefined, args, players, heap)>>,
                    players, heap)
        ELSE Return(ev,
                    notify(players, heap, name, lp, other, args)
                    \o <<Hook(name, lp, other, args, players, heap)>>,
                    players, heap)

\* the shape with the other player required as well: the event is dropped
\* when the other player does not resolve
TwoPlayerRoute_DropWithoutOther(name, eventPlayer, eventOtherPlayer, args) ==
    LET ev == Event(name, eventPlayer, eventOtherPlayer, 0, args, Undefined,
                    NoListener)
        players == playerManager.players
        lp == get(players, eventPlayer)
        other == get(players, eventOtherPlayer)
    IN  IF ~playerManager.defined
        THEN Throw(ev)
        ELSE IF lp = Undefined \/ other = Undefined
        THEN Return(ev, <<>>, players, heap)
        ELSE Return(ev,
                    notify(players, heap, name, lp, other, args)
                    \o <<Hook(name, lp, other, args, players, heap)>>,
                    players, heap)

\* the shape with an other player that is the acting player itself passed
\* as undefined
TwoPlayerRoute_SelfIsAbsent(name, eventPlayer, eventOtherPlayer, args) ==
    LET ev == Event(name, eventPlayer, eventOtherPlayer, 0, args, Undefined,
                    NoListener)
        players == playerManager.players
        lp == get(players, eventPlayer)
        found == get(players, eventOtherPlayer)
        other == IF found = lp THEN Undefined ELSE found
    IN  IF ~playerManager.defined
        THEN Throw(ev)
        ELSE IF lp = Undefined
        THEN Return(ev, <<>>, players, heap)
        ELSE Return(ev,
                    notify(players, heap, name, lp, other, args)
                    \o <<Hook(name, lp, other, args, players, heap)>>,
                    players, heap)

\* the shape of the entry points with two players: the acting player must
\* resolve, the other player is passed as resolved or undefined
TwoPlayerRoute(name, eventPlayer, eventOtherPlayer, args) ==
    LET ev == Event(name, eventPlayer, eventOtherPlayer, 0, args, Undefined,
                    NoListener)
        players == playerManager.players
        lp == get(players, eventPlayer)
        other == get(players, eventOtherPlayer)
    IN  IF ~playerManager.defined
        THEN Throw(ev)
        ELSE IF lp = Undefined
        THEN Return(ev, <<>>, players, heap)
        ELSE Return(ev,
                    notify(players, heap, name, lp, other, args)
                    \o <<Hook(name, lp, other, args, players, heap)>>,
                    players, heap)

\* OngoingPlayer without the guard on this.playerManager: like every
\* other entry point with a player it raises when there is no manager
OngoingPlayer_Unguarded(eventPlayer) ==
    LET ev == Event("OngoingPlayer", eventPlayer, 0, 0, <<>>, Undefined,
                    NoListener)
        players == playerManager.players
        lp == get(players, eventPlayer)
    IN  IF ~playerManager.defined
        THEN Throw(ev)
        ELSE IF lp = Undefined
        THEN Return(ev, <<>>, players, heap)
        ELSE Return(ev,
                    tick(players, heap, eventPlayer)
                    \o <<Hook("OngoingPlayer", lp, Undefined, <<>>, players,
                              heap)>>,
                    players, heap)

\* _internal.OngoingPlayer: guarded against a missing manager
OngoingPlayer(eventPlayer) ==
    LET ev == Event("OngoingPlayer", eventPlayer, 0, 0, <<>>, Undefined,
                    NoListener)
        players == playerManager.players
        lp == get(players, eventPlayer)
    IN  IF ~playerManager.defined
        THEN Return(ev, <<>>, players, heap)
        ELSE IF lp = Undefined
        THEN Return(ev, <<>>, players, heap)
        ELSE Return(ev,
                    tick(players, heap, eventPlayer)
                    \o <<Hook("OngoingPlayer", lp, Undefined, <<>>, players,
                              heap)>>,
                    players, heap)

\* _internal.OnAIMoveToFailed
OnAIMoveToFailed(eventPlayer) ==
    SinglePlayerRoute("OnAIMoveToFailed", eventPlayer, <<>>)

\* _internal.OnAIMoveToRunning
OnAIMoveToRunning(eventPlayer) ==
    SinglePlayerRoute("OnAIMoveToRunning", eventPlayer, <<>>)

\* _internal.OnAIMoveToSucceeded
OnAIMoveToSucceeded(eventPlayer) ==
    SinglePlayerRoute("OnAIMoveToSucceeded", eventPlayer, <<>>)

\* _internal.OnAIParachuteRunning
OnAIParachuteRunning(eventPlayer) ==
    SinglePlayerRoute("OnAIParachuteRunning", eventPlayer, <<>>)

\* _internal.OnAIParachuteSucceeded
OnAIParachuteSucceeded(eventPlayer) ==
    SinglePlayerRoute("OnAIParachuteSucceeded", eventPlayer, <<>>)

\* _internal.OnAIWaypointIdleFailed
OnAIWaypointIdleFailed(eventPlayer) ==
    SinglePlayerRoute("OnAIWaypointIdleFailed", eventPlayer, <<>>)

\* _internal.OnAIWaypointIdleRunning
OnAIWaypointIdleRunning(eventPlayer) ==
    SinglePlayerRoute("OnAIWaypointIdleRunning", eventPlayer, <<>>)

\* _internal.OnAIWaypointIdleSucceeded
OnAIWaypointIdleSucceeded(eventPlayer) ==
    SinglePlayerRoute("OnAIWaypointIdleSucceeded", eventPlayer, <<>>)

\* _internal.OnPlayerDeployed
OnPlayerDeployed(eventPlayer) ==
    SinglePlayerRoute("OnPlayerDeployed", eventPlayer, <<>>)

\* _internal.OnPlayerInteract: args is (eventInteractPoint)
OnPlayerInteract(eventPlayer, args) ==
    SinglePlayerRoute("OnPlayerInteract", eventPlayer, args)

\* _internal.OnPlayerEnterAreaTrigger: args is (eventAreaTrigger)
OnPlayerEnterAreaTrigger(eventPlayer, args) ==
    SinglePlayerRoute("OnPlayerEnterAreaTrigger", eventPlayer, args)

\* _internal.OnPlayerExitAreaTrigger: args is (eventAreaTrigger)
OnPlayerExitAreaTrigger(eventPlayer, args) ==
    SinglePlayerRoute("OnPlayerExitAreaTrigger", eventPlayer, args)

\* _internal.OnPlayerEnterCapturePoint: args is (eventCapturePoint)
OnPlayerEnterCapturePoint(eventPlayer, args) ==
    SinglePlayerRoute("OnPlayerEnterCapturePoint", eventPlayer, args)

\* _internal.OnPlayerExitCapturePoint: args is (eventCapturePoint)
OnPlayerExitCapturePoint(eventPlayer, args) ==
    SinglePlayerRoute("OnPlayerExitCapturePoint", eventPlayer, args)

\* _internal.OnPlayerEnterVehicle: args is (eventVehicle)
OnPlayerEnterVehicle(eventPlayer, args) ==
    SinglePlayerRoute("OnPlayerEnterVehicle", eventPlayer, args)

\* _internal.OnPlayerExitVehicle: args is (eventVehicle)
OnPlayerExitVehicle(eventPlayer, args) ==
    SinglePlayerRoute("OnPlayerExitVehicle", eventPlayer, args)

\* _internal.OnPlayerEnterVehicleSeat: args is (eventVehicle, eventSeat)
OnPlayerEnterVehicleSeat(eventPlayer, args) ==
    SinglePlayerRoute("OnPlayerEnterVehicleSeat", eventPlayer, args)

\* _internal.OnPlayerExitVehicleSeat: args is (eventVehicle, eventSeat)
OnPlayerExitVehicleSeat(eventPlayer, args) ==
    SinglePlayerRoute("OnPlayerExitVehicleSeat", eventPlayer, args)

\* _internal.OnPlayerSwitchTeam: args is (eventTeam)
OnPlayerSwitchTeam(eventPlayer, args) ==
    SinglePlayerRoute("OnPlayerSwitchTeam", eventPlayer, args)

\* _internal.OnPlayerUIButtonEvent: args is (eventUIWidget, eventUIButtonEvent)
OnPlayerUIButtonEvent(eventPlayer, args) ==
    SinglePlayerRoute("OnPlayerUIButtonEvent", eventPlayer, args)

\* _internal.OnPlayerUndeploy
OnPlayerUndeploy(eventPlayer) ==
    SinglePlayerRoute("OnPlayerUndeploy", eventPlayer, <<>>)

\* _internal.OnRayCastHit: args is (eventPoint, eventNormal)
OnRayCastHit(eventPlayer, args) ==
    SinglePlayerRoute("OnRayCastHit", eventPlayer, args)

\* _internal.OnRayCastMissed
OnRayCastMissed(eventPlayer) ==
    SinglePlayerRoute("OnRayCastMissed", eventPlayer, <<>>)

\* _internal.OnSpawnerSpawned: args is (eventSpawner)
OnSpawnerSpawned(eventPlayer, args) ==
    SinglePlayerRoute("OnSpawnerSpawned", eventPlayer, args)

\* _internal.OnMandown
OnMandown(eventPlayer, eventOtherPlayer) ==
    TwoPlayerRoute("OnMandown", eventPlayer, eventOtherPlayer, <<>>)

\* _internal.OnPlayerDamaged: args is (eventDamageType, eventWeaponUnlock)
OnPlayerDamaged(eventPlayer, eventOtherPlayer, args) ==
    TwoPlayerRoute("OnPlayerDamaged", eventPlayer, eventOtherPlayer, args)

\* _internal.OnPlayerDied: args is (eventDeathType, eventWeaponUnlock)
OnPlayerDied(eventPlayer, eventOtherPlayer, args) ==
    TwoPlayerRoute("OnPlayerDied", eventPlayer, eventOtherPlayer, args)

\* _internal.OnPlayerEarnedKill: args is (eventDeathType, eventWeaponUnlock)
OnPlayerEarnedKill(eventPlayer, eventOtherPlayer, args) ==
    TwoPlayerRoute("OnPlayerEarnedKill", eventPlayer, eventOtherPlayer, args)

\* _internal.OnPlayerEarnedKillAssist
OnPlayerEarnedKillAssist(eventPlayer, eventOtherPlayer) ==
    TwoPlayerRoute("OnPlayerEarnedKillAssist", eventPlayer, eventOtherPlayer, <<>>)

\* _internal.OnRevived
OnRevived(eventPlayer, eventOtherPlayer) ==
    TwoPlayerRoute("OnRevived", eventPlayer, eventOtherPlayer, <<>>)

\* OnPlayerJoinGame without the test for an existing manager: every join
\* creates a manager
OnPlayerJoinGame_RecreateManager(eventPlayer) ==
    LET ev == Event("OnPlayerJoinGame", eventPlayer, 0, 0, <<>>, Undefined,
                    NoListener)
        r == addPlayer(<<>>, heap, eventPlayer)
    IN  /\ event' = ev
        /\ trace' = <<Call("create", "createPlayerManager", Undefined,
                           NoListener, Undefined, Undefined, <<>>, <<>>,
                           heap)>>
                    \o r.trace
                    \o <<Hook("OnPlayerJoinGame", r.lp, Undefined, <<>>,
                              r.players, r.heap)>>
        /\ threw' = FALSE
        /\ before' = Before
        /\ playerManager' = [defined |-> TRUE, players |-> r.players]
        /\ heap' = r.heap
        /\ UNCHANGED <<listeners, valid>>

\* OnPlayerJoinGame with the hook called on the created player before
\* the registry has the entry
OnPlayerJoinGame_HookFirst(eventPlayer) ==
    LET ev == Event("OnPlayerJoinGame", eventPlayer, 0, 0, <<>>, Undefined,
                    NoListener)
        create == ~playerManager.defined
        players == IF create THEN <<>> ELSE playerManager.players
        r == addPlayer(players, heap, eventPlayer)
    IN  /\ event' = ev
        /\ trace' = <<Hook("OnPlayerJoinGame", r.lp, Undefined, <<>>,
                           players, r.heap)>>
                    \o r.trace
        /\ threw' = FALSE
        /\ before' = Before
        /\ playerManager' = [defined |-> TRUE, players |-> r.players]
        /\ heap' = r.heap
        /\ UNCHANGED <<listeners, valid>>

\* OnPlayerJoinGame with the hook called only for a player addPlayer
\* created: a join of a registered id is dropped
OnPlayerJoinGame_HookOnlyForNew(eventPlayer) ==
    LET ev == Event("OnPlayerJoinGame", eventPlayer, 0, 0, <<>>, Undefined,
                    NoListener)
        create == ~playerManager.defined
        players == IF create THEN <<>> ELSE playerManager.players
        r == addPlayer(players, heap, eventPlayer)
    IN  /\ event' = ev
        /\ trace' = (IF create
                     THEN <<Call("create", "createPlayerManager", Undefined,
                                 NoListener, Undefined, Undefined, <<>>,
                                 <<>>, heap)>>
                     ELSE <<>>)
                    \o r.trace
                    \o (IF MapHas(players, GetObjId(eventPlayer))
                        THEN <<>>
                        ELSE <<Hook("OnPlayerJoinGame", r.lp, Undefined,
                                    <<>>, r.players, r.heap)>>)
        /\ threw' = FALSE
        /\ before' = Before
        /\ playerManager' = [defined |-> TRUE, players |-> r.players]
        /\ heap' = r.heap
        /\ UNCHANGED <<listeners, valid>>

\* _internal.OnPlayerJoinGame: creates the manager if there is none, adds
\* the player, then calls the join hook with the player addPlayer returned
OnPlayerJoinGame(eventPlayer) ==
    LET ev == Event("OnPlayerJoinGame", eventPlayer, 0, 0, <<>>, Undefined,
                    NoListener)
        create == ~playerManager.defined
        players == IF create THEN <<>> ELSE playerManager.players
        r == addPlayer(players, heap, eventPlayer)
    IN  /\ event' = ev
        /\ trace' = (IF create
                     THEN <<Call("create", "createPlayerManager", Undefined,
                                 NoListener, Undefined, Undefined, <<>>,
                                 <<>>, heap)>>
                     ELSE <<>>)
                    \o r.trace
                    \o <<Hook("OnPlayerJoinGame", r.lp, Undefined, <<>>,
                              r.players, r.heap)>>
        /\ threw' = FALSE
        /\ before' = Before
        /\ playerManager' = [defined |-> TRUE, players |-> r.players]
        /\ heap' = r.heap
        /\ UNCHANGED <<listeners, valid>>

\* OnPlayerLeaveGame without the call of removePlayer
OnPlayerLeaveGame_NoRemove(eventNumber) ==
    LET ev == Event("OnPlayerLeaveGame", 0, 0, eventNumber, <<>>, Undefined,
                    NoListener)
        players == playerManager.players
        lp == getById(players, eventNumber)
    IN  IF ~playerManager.defined
        THEN Throw(ev)
        ELSE Return(ev,
                    IF lp # Undefined
                    THEN <<Hook("OnPlayerLeaveGame", lp, Undefined, <<>>,
                                players, heap)>>
                    ELSE <<>>,
                    players, heap)

\* OnPlayerLeaveGame with the removal first: the hook runs on the player
\* after its entry is deleted and its listeners are detached
OnPlayerLeaveGame_RemoveFirst(eventNumber) ==
    LET ev == Event("OnPlayerLeaveGame", 0, 0, eventNumber, <<>>, Undefined,
                    NoListener)
        players == playerManager.players
        lp == getById(players, eventNumber)
        r == removePlayer(players, heap, eventNumber)
    IN  IF ~playerManager.defined
        THEN Throw(ev)
        ELSE Return(ev,
                    IF lp # Undefined
                    THEN <<Hook("OnPlayerLeaveGame", lp, Undefined, <<>>,
                                r.players, r.heap)>>
                    ELSE <<>>,
                    r.players, r.heap)

\* OnPlayerLeaveGame publishing the leave to the leaving player's
\* listeners before the hook
OnPlayerLeaveGame_EmitLeave(eventNumber) ==
    LET ev == Event("OnPlayerLeaveGame", 0, 0, eventNumber, <<>>, Undefined,
                    NoListener)
        players == playerManager.players
        lp == getById(players, eventNumber)
        r == removePlayer(players, heap, eventNumber)
    IN  IF ~playerManager.defined
        THEN Throw(ev)
        ELSE Return(ev,
                    IF lp # Undefined
                    THEN emit(heap, lp, "OnPlayerLeaveGame", Undefined,
                              Undefined, <<>>, players)
                         \o <<Hook("OnPlayerLeaveGame", lp, Undefined, <<>>,
                                   players, heap)>>
                    ELSE <<>>,
                    r.players, r.heap)

\* _internal.OnPlayerLeaveGame: calls the leave hook if the id resolves,
\* then removes the player
OnPlayerLeaveGame(eventNumber) ==
    LET ev == Event("OnPlayerLeaveGame", 0, 0, eventNumber, <<>>, Undefined,
                    NoListener)
        players == playerManager.players
        lp == getById(players, eventNumber)
        r == removePlayer(players, heap, eventNumber)
    IN  IF ~playerManager.defined
        THEN Throw(ev)
        ELSE Return(ev,
                    IF lp # Undefined
                    THEN <<Hook("OnPlayerLeaveGame", lp, Undefined, <<>>,
                                players, heap)>>
                    ELSE <<>>,
                    r.players, r.heap)

\* ------------------------------------------------------------------------
\* Core_AGameMode: the entry points without player context
\* ------------------------------------------------------------------------

\* the shape with the arguments not passed on: the hook is called with none
GlobalRoute_DropArgs(name, args) ==
    Return(Event(name, 0, 0, 0, args, Undefined, NoListener),
           <<Hook(name, Undefined, Undefined, <<>>, playerManager.players,
                  heap)>>,
           playerManager.players, heap)

\* the shape of the entry points without player context: the hook of the
\* same name is called with the arguments received; the manager is not
\* read
GlobalRoute(name, args) ==
    Return(Event(name, 0, 0, 0, args, Undefined, NoListener),
           <<Hook(name, Undefined, Undefined, args, playerManager.players,
                  heap)>>,
           playerManager.players, heap)

\* _internal.OngoingAreaTrigger
OngoingAreaTrigger(eventAreaTrigger) == GlobalRoute("OngoingAreaTrigger", <<eventAreaTrigger>>)

\* _internal.OngoingCapturePoint
OngoingCapturePoint(eventCapturePoint) == GlobalRoute("OngoingCapturePoint", <<eventCapturePoint>>)

\* _internal.OngoingEmplacementSpawner
OngoingEmplacementSpawner(eventEmplacementSpawner) == GlobalRoute("OngoingEmplacementSpawner", <<eventEmplacementSpawner>>)

\* _internal.OngoingHQ
OngoingHQ(eventHQ) == GlobalRoute("OngoingHQ", <<eventHQ>>)

\* _internal.OngoingInteractPoint
OngoingInteractPoint(eventInteractPoint) == GlobalRoute("OngoingInteractPoint", <<eventInteractPoint>>)

\* _internal.OngoingLootSpawner
OngoingLootSpawner(eventLootSpawner) == GlobalRoute("OngoingLootSpawner", <<eventLootSpawner>>)

\* _internal.OngoingMCOM
OngoingMCOM(eventMCOM) == GlobalRoute("OngoingMCOM", <<eventMCOM>>)

\* _internal.OngoingRingOfFire
OngoingRingOfFire(eventRingOfFire) == GlobalRoute("OngoingRingOfFire", <<eventRingOfFire>>)

\* _internal.OngoingSector
OngoingSector(eventSector) == GlobalRoute("OngoingSector", <<eventSector>>)

\* _internal.OngoingSpawner
OngoingSpawner(eventSpawner) == GlobalRoute("OngoingSpawner", <<eventSpawner>>)

\* _internal.OngoingSpawnPoint
OngoingSpawnPoint(eventSpawnPoint) == GlobalRoute("OngoingSpawnPoint", <<eventSpawnPoint>>)

\* _internal.OngoingTeam
OngoingTeam(eventTeam) == GlobalRoute("OngoingTeam", <<eventTeam>>)

\* _internal.OngoingVehicle
OngoingVehicle(eventVehicle) == GlobalRoute("OngoingVehicle", <<eventVehicle>>)

\* _internal.OngoingVehicleSpawner
OngoingVehicleSpawner(eventVehicleSpawner) == GlobalRoute("OngoingVehicleSpawner", <<eventVehicleSpawner>>)

\* _internal.OngoingWaypointPath
OngoingWaypointPath(eventWaypointPath) == GlobalRoute("OngoingWaypointPath", <<eventWaypointPath>>)

\* _internal.OngoingWorldIcon
OngoingWorldIcon(eventWorldIcon) == GlobalRoute("OngoingWorldIcon", <<eventWorldIcon>>)

\* _internal.OnCapturePointCaptured
OnCapturePointCaptured(eventCapturePoint) == GlobalRoute("OnCapturePointCaptured", <<eventCapturePoint>>)

\* _internal.OnCapturePointCapturing
OnCapturePointCapturing(eventCapturePoint) == GlobalRoute("OnCapturePointCapturing", <<eventCapturePoint>>)

\* _internal.OnCapturePointLost
OnCapturePointLost(eventCapturePoint) == GlobalRoute("OnCapturePointLost", <<eventCapturePoint>>)

\* _internal.OnGameModeEnding
OnGameModeEnding == GlobalRoute("OnGameModeEnding", <<>>)

\* _internal.OnMCOMArmed
OnMCOMArmed(eventMCOM) == GlobalRoute("OnMCOMArmed", <<eventMCOM>>)

\* _internal.OnMCOMDefused
OnMCOMDefused(eventMCOM) == GlobalRoute("OnMCOMDefused", <<eventMCOM>>)

\* _internal.OnMCOMDestroyed
OnMCOMDestroyed(eventMCOM) == GlobalRoute("OnMCOMDestroyed", <<eventMCOM>>)

\* _internal.OnRingOfFireZoneSizeChange
OnRingOfFireZoneSizeChange(eventRingOfFire, eventNumber) ==
    GlobalRoute("OnRingOfFireZoneSizeChange", <<eventRingOfFire, eventNumber>>)

\* _internal.OnTimeLimitReached
OnTimeLimitReached == GlobalRoute("OnTimeLimitReached", <<>>)

\* _internal.OnVehicleDestroyed
OnVehicleDestroyed(eventVehicle) == GlobalRoute("OnVehicleDestroyed", <<eventVehicle>>)

\* _internal.OnVehicleSpawned
OnVehicleSpawned(eventVehicle) == GlobalRoute("OnVehicleSpawned", <<eventVehicle>>)

\* the number of Example_FooClass objects subscribed to the mode
FooCount ==
    Cardinality({ k \in 1..Len(listeners) : listeners[k][1] = "foo" })

\* _internal.OnGameModeStarted: calls the hook, which Example_GameMode
\* overrides: it logs and constructs an Example_FooClass, whose constructor
\* subscribes a new object with the capability OngoingGlobal to the mode
OnGameModeStarted ==
    /\ event' = Event("OnGameModeStarted", 0, 0, 0, <<>>, Undefined,
                      NoListener)
    /\ trace' = <<Hook("OnGameModeStarted", Undefined, Undefined, <<>>,
                       playerManager.players, heap)>>
    /\ threw' = FALSE
    /\ before' = Before
    /\ listeners' = addListener(listeners, FooListener(FooCount + 1))
    /\ UNCHANGED <<playerManager, heap, valid>>

\* ------------------------------------------------------------------------
\* Core_AGameMode: the bus of the mode's observers
\* ------------------------------------------------------------------------

\* Core_AGameMode.emit: the named capability of every observer that
\* implements it, in the order the loop reaches them; gives the calls made
\* and the mode's listeners afterwards
modeEmit(ls, name, players, hp) ==
    LET r == pass(1, ls, <<>>, TRUE, name)
    IN  [trace |->
            <<Call("modeEmit", name, Undefined, NoListener, Undefined,
                   Undefined, <<>>, players, hp)>>
            \o [k \in 1..Len(r.calls) |->
                   Call("observer", name, Undefined, r.calls[k].listener,
                        Undefined, Undefined, <<>>, players, hp)],
         listeners |-> r.listeners]

\* OngoingGlobal with the two statements swapped: the hook runs before the
\* observers
OngoingGlobal_HookFirst ==
    LET players == playerManager.players
        r == modeEmit(listeners, "OngoingGlobal", players, heap)
    IN  /\ event' = Event("OngoingGlobal", 0, 0, 0, <<>>, Undefined,
                          NoListener)
        /\ trace' = <<Hook("OngoingGlobal", Undefined, Undefined, <<>>,
                           players, heap)>>
                    \o r.trace
        /\ threw' = FALSE
        /\ before' = Before
        /\ listeners' = r.listeners
        /\ UNCHANGED <<playerManager, heap, valid>>

\* _internal.OngoingGlobal: emits OngoingGlobal to the mode's observers,
\* then calls the hook
OngoingGlobal ==
    LET players == playerManager.players
        r == modeEmit(listeners, "OngoingGlobal", players, heap)
    IN  /\ event' = Event("OngoingGlobal", 0, 0, 0, <<>>, Undefined,
                          NoListener)
        /\ trace' = r.trace
                    \o <<Hook("OngoingGlobal", Undefined, Undefined, <<>>,
                              players, heap)>>
        /\ threw' = FALSE
        /\ before' = Before
        /\ listeners' = r.listeners
        /\ UNCHANGED <<playerManager, heap, valid>>

\* game code subscribes an observer to the mode (Core_AGameMode.addListener)
ModeAddListener(l) ==
    /\ listeners' = addListener(listeners, l)
    /\ event' = Event("modeAddListener", 0, 0, 0, <<>>, Undefined, l)
    /\ trace' = <<>>
    /\ threw' = FALSE
    /\ before' = Before
    /\ UNCHANGED <<playerManager, heap, valid>>

\* game code unsubscribes an observer from the mode
\* (Core_AGameMode.removeListener)
ModeRemoveListener(l) ==
    /\ listeners' = removeListener(listeners, l)
    /\ event' = Event("modeRemoveListener", 0, 0, 0, <<>>, Undefined, l)
    /\ trace' = <<>>
    /\ threw' = FALSE
    /\ before' = Before
    /\ UNCHANGED <<playerManager, heap, valid>>

\* ------------------------------------------------------------------------
\* Game code and host
\* ------------------------------------------------------------------------

\* the player is in the registry
Registered(inst) ==
    \E i \in 1..Len(playerManager.players) :
        playerManager.players[i].lp = inst

\* game code subscribes a listener object to a player it holds
AddListener(inst, l) ==
    /\ heap' = [heap EXCEPT ![inst].listeners = addListener(@, l)]
    /\ event' = Event("addListener", 0, 0, 0, <<>>, inst, l)
    /\ trace' = <<>>
    /\ threw' = FALSE
    /\ before' = Before
    /\ UNCHANGED <<playerManager, listeners, valid>>

\* game code unsubscribes a listener object from a player it holds
RemoveListener(inst, l) ==
    /\ heap' = [heap EXCEPT ![inst].listeners = removeListener(@, l)]
    /\ event' = Event("removeListener", 0, 0, 0, <<>>, inst, l)
    /\ trace' = <<>>
    /\ threw' = FALSE
    /\ before' = Before
    /\ UNCHANGED <<playerManager, listeners, valid>>

\* game code calls emit(name, ...args) on a player it holds a reference to
Emit(inst, name, args) ==
    LET r == emitPass(heap, inst, name, Undefined, Undefined, args,
                      playerManager.players)
    IN  /\ event' = Event("emit", 0, 0, 0, <<name>> \o args, inst,
                          NoListener)
        /\ trace' = r.trace
        /\ heap' = r.heap
        /\ threw' = FALSE
        /\ before' = Before
        /\ UNCHANGED <<playerManager, listeners, valid>>

\* the host changes the liveness of a handle (mod.IsPlayerValid)
HostSetValid(h, b) ==
    /\ valid[h] # b
    /\ valid' = [valid EXCEPT ![h] = b]
    /\ UNCHANGED <<playerManager, heap, listeners, event, trace, threw,
                   before>>

\* the call that ran last returns to the host; the record of the call is
\* dropped
HostReturn ==
    /\ event # Idle
    /\ event' = Idle
    /\ trace' = <<>>
    /\ threw' = FALSE
    /\ before' = NoBefore
    /\ UNCHANGED <<playerManager, heap, listeners, valid>>

\* ------------------------------------------------------------------------
\* Specification
\* ------------------------------------------------------------------------

\* after new Example_GameMode(): no manager, no player, no observer; the
\* host's liveness of the handles is arbitrary
Init ==
    /\ playerManager = [defined |-> FALSE, players |-> <<>>]
    /\ heap = <<>>
    /\ listeners = <<>>
    /\ valid \in [Handles -> BOOLEAN]
    /\ event = Idle
    /\ trace = <<>>
    /\ threw = FALSE
    /\ before = NoBefore
    /\ joinLog = <<>>
    /\ lastCalls = <<>>
    /\ clock = 0
    /\ lastTime = <<>>
    /\ ranAt = <<>>

\* one call of the host or of game code
Calls ==
    \/ \E h \in Handles : OnPlayerJoinGame(h) /\ Len(heap') <= MaxInst
    \/ \E n \in Ids : OnPlayerLeaveGame(n)
    \/ \E h \in Handles : OngoingPlayer(h)
    \/ \E h \in Handles : OnAIMoveToFailed(h)
    \/ \E h \in Handles : OnAIMoveToRunning(h)
    \/ \E h \in Handles : OnAIMoveToSucceeded(h)
    \/ \E h \in Handles : OnAIParachuteRunning(h)
    \/ \E h \in Handles : OnAIParachuteSucceeded(h)
    \/ \E h \in Handles : OnAIWaypointIdleFailed(h)
    \/ \E h \in Handles : OnAIWaypointIdleRunning(h)
    \/ \E h \in Handles : OnAIWaypointIdleSucceeded(h)
    \/ \E h \in Handles : OnPlayerDeployed(h)
    \/ \E h \in Handles, a \in ArgTuples(1) : OnPlayerInteract(h, a)
    \/ \E h \in Handles, a \in ArgTuples(1) : OnPlayerEnterAreaTrigger(h, a)
    \/ \E h \in Handles, a \in ArgTuples(1) : OnPlayerExitAreaTrigger(h, a)
    \/ \E h \in Handles, a \in ArgTuples(1) : OnPlayerEnterCapturePoint(h, a)
    \/ \E h \in Handles, a \in ArgTuples(1) : OnPlayerExitCapturePoint(h, a)
    \/ \E h \in Handles, a \in ArgTuples(1) : OnPlayerEnterVehicle(h, a)
    \/ \E h \in Handles, a \in ArgTuples(1) : OnPlayerExitVehicle(h, a)
    \/ \E h \in Handles, a \in ArgTuples(2) : OnPlayerEnterVehicleSeat(h, a)
    \/ \E h \in Handles, a \in ArgTuples(2) : OnPlayerExitVehicleSeat(h, a)
    \/ \E h \in Handles, a \in ArgTuples(1) : OnPlayerSwitchTeam(h, a)
    \/ \E h \in Handles, a \in ArgTuples(2) : OnPlayerUIButtonEvent(h, a)
    \/ \E h \in Handles : OnPlayerUndeploy(h)
    \/ \E h \in Handles, a \in ArgTuples(2) : OnRayCastHit(h, a)
    \/ \E h \in Handles : OnRayCastMissed(h)
    \/ \E h \in Handles, a \in ArgTuples(1) : OnSpawnerSpawned(h, a)
    \/ \E h \in Handles, o \in Handles : OnMandown(h, o)
    \/ \E h \in Handles, o \in Handles, a \in ArgTuples(2) :
          OnPlayerDamaged(h, o, a)
    \/ \E h \in Handles, o \in Handles, a \in ArgTuples(2) :
          OnPlayerDied(h, o, a)
    \/ \E h \in Handles, o \in Handles, a \in ArgTuples(2) :
          OnPlayerEarnedKill(h, o, a)
    \/ \E h \in Handles, o \in Handles : OnPlayerEarnedKillAssist(h, o)
    \/ \E h \in Handles, o \in Handles : OnRevived(h, o)
    \/ \E inst \in 1..Len(heap), l \in PlayerListeners :
          /\ Registered(inst)
          /\ Len(heap[inst].listeners) < MaxListeners
          /\ AddListener(inst, l)
    \/ \E inst \in 1..Len(heap), name \in PlayerEventNames :
          /\ ~Registered(inst)
          /\ Emit(inst, name, <<>>)
    \/ \E h \in Handles, b \in BOOLEAN : HostSetValid(h, b)

\* the host makes one call at a time, to completion: the next call starts
\* when the last one has returned
Step ==
    \/ event = Idle /\ Calls
    \/ HostReturn

Next == Step /\ UNCHANGED <<joinLog, lastCalls>> /\ UNCHANGED fooVars

Spec == Init /\ [][Next]_vars


\* ------------------------------------------------------------------------
\* Join-only behaviours: every event is a join of an id that has not joined
\* before, in between game code subscribes listeners and handles change
\* liveness.  joinLog keeps, per join, the id, the player the factory
\* created during the call and the player the join hook received.
\* ------------------------------------------------------------------------

\* the lp argument of the only call of that kind and name in tr, undefined
\* if there is no such call or more than one
OnlyCall(tr, kind, name) ==
    LET c == SelectSeq(tr, LAMBDA r : r.kind = kind /\ r.name = name)
    IN  IF Len(c) = 1 THEN c[1].lp ELSE Undefined

JoinCalls ==
    \/ \E h \in Handles :
          /\ ~MapHas(playerManager.players, GetObjId(h))
          /\ OnPlayerJoinGame(h)
          /\ Len(heap') <= MaxInst
          /\ joinLog' = Append(joinLog,
                [id |-> GetObjId(h),
                 created |-> OnlyCall(trace', "create", "createPlayer"),
                 hooked |-> OnlyCall(trace', "hook", "OnPlayerJoinGame")])
          /\ UNCHANGED lastCalls
    \/ /\ \E inst \in 1..Len(heap), l \in PlayerListeners :
             /\ Registered(inst)
             /\ Len(heap[inst].listeners) < MaxListeners
             /\ AddListener(inst, l)
       /\ UNCHANGED <<joinLog, lastCalls>>
    \/ /\ \E h \in Handles, b \in BOOLEAN : HostSetValid(h, b)
       /\ UNCHANGED <<joinLog, lastCalls>>

NextJoin ==
    /\ \/ event = Idle /\ JoinCalls
       \/ HostReturn /\ UNCHANGED <<joinLog, lastCalls>>
    /\ UNCHANGED fooVars

SpecJoin == Init /\ [][NextJoin]_vars

\* ------------------------------------------------------------------------
\* Joins and leaves: the host lets players join and leave, game code
\* subscribes listeners.  lastCalls keeps the last three calls, oldest
\* first.
\* ------------------------------------------------------------------------

\* longest record of past calls
MaxLastCalls == 3

\* lastCalls with the call ev added
Logged(ev) ==
    LET s == Append(lastCalls, [name |-> ev.name, player |-> ev.player,
                                number |-> ev.number])
    IN  IF Len(s) > MaxLastCalls THEN Tail(s) ELSE s

LeaveCalls ==
    /\ \/ \E h \in Handles : OnPlayerJoinGame(h) /\ Len(heap') <= MaxInst
       \/ \E n \in Ids : OnPlayerLeaveGame(n)
       \/ \E inst \in 1..Len(heap), l \in PlayerListeners :
             /\ Registered(inst)
             /\ Len(heap[inst].listeners) < MaxListeners
             /\ AddListener(inst, l)
    /\ lastCalls' = Logged(event')

NextLeave ==
    /\ \/ event = Idle /\ LeaveCalls
       \/ HostReturn /\ UNCHANGED lastCalls
    /\ UNCHANGED joinLog
    /\ UNCHANGED fooVars

SpecLeave == Init /\ [][NextLeave]_vars

\* ------------------------------------------------------------------------
\* The mode's observers and the global tick: game code subscribes and
\* unsubscribes observers, the host ticks
\* ------------------------------------------------------------------------

GlobalCalls ==
    \/ OngoingGlobal
    \/ \E l \in ModeListeners :
          /\ Len(listeners) < MaxObservers
          /\ ModeAddListener(l)
    \/ \E l \in ModeListeners : ModeRemoveListener(l)

NextGlobal ==
    /\ \/ event = Idle /\ GlobalCalls
       \/ HostReturn
    /\ UNCHANGED <<joinLog, lastCalls>>
    /\ UNCHANGED fooVars

SpecGlobal == Init /\ [][NextGlobal]_vars

\* ------------------------------------------------------------------------
\* The two buses: game code subscribes and unsubscribes listener objects to
\* a player and to the mode and emits on the player, the host ticks.  Some
\* of the listener objects subscribe or unsubscribe another one from inside
\* their callback.
\* ------------------------------------------------------------------------

\* the handles that join here are 1..MaxBusHandle
MaxBusHandle == 1

\* the listener objects game code subscribes to a player here: two plain
\* ones with the same callbacks, one that unsubscribes and one that
\* subscribes the first plain one
BusPlayerListeners ==
    { <<"user", 1>>, <<"user", 2>>, <<"removesUser", 1>>, <<"addsUser", 1>> }

\* the observer objects game code subscribes to the mode here
BusModeListeners ==
    ModeListeners \cup { <<"removesObserver", 2>>, <<"addsObserver", 2>> }

\* the events game code emits on a player here
BusEventNames == { "OnPlayerDeployed", "OnPlayerDied", "OnPlayerUndeploy" }

\* every handle is live
InitBus == Init /\ valid = [h \in Handles |-> TRUE]

BusCalls ==
    \/ \E h \in 1..MaxBusHandle :
          OnPlayerJoinGame(h) /\ Len(heap') <= MaxInst
    \/ \E inst \in 1..Len(heap), l \in BusPlayerListeners :
          /\ Len(heap[inst].listeners) < MaxObservers
          /\ AddListener(inst, l)
    \/ \E inst \in 1..Len(heap), l \in BusPlayerListeners :
          RemoveListener(inst, l)
    \/ \E inst \in 1..Len(heap), name \in BusEventNames,
          args \in ArgTuples(1) :
          /\ Emit(inst, name, args)
          /\ Len(heap'[inst].listeners) <= MaxObservers
    \/ \E l \in BusModeListeners :
          /\ Len(listeners) < MaxObservers
          /\ ModeAddListener(l)
    \/ \E l \in BusModeListeners : ModeRemoveListener(l)
    \/ OngoingGlobal /\ Len(listeners') <= MaxObservers

NextBus ==
    /\ \/ event = Idle /\ BusCalls
       \/ HostReturn
    /\ UNCHANGED <<joinLog, lastCalls>>
    /\ UNCHANGED fooVars

SpecBus == InitBus /\ [][NextBus]_vars

\* ------------------------------------------------------------------------
\* The host alone: every function main.ts exports is called, with any
\* handle and any payload, and no game code runs besides the hooks
\* ------------------------------------------------------------------------

\* the entry points without player context
NoContextCalls ==
    \/ \E a \in ArgVals : OngoingAreaTrigger(a)
    \/ \E a \in ArgVals : OngoingCapturePoint(a)
    \/ \E a \in ArgVals : OngoingEmplacementSpawner(a)
    \/ \E a \in ArgVals : OngoingHQ(a)
    \/ \E a \in ArgVals : OngoingInteractPoint(a)
    \/ \E a \in ArgVals : OngoingLootSpawner(a)
    \/ \E a \in ArgVals : OngoingMCOM(a)
    \/ \E a \in ArgVals : OngoingRingOfFire(a)
    \/ \E a \in ArgVals : OngoingSector(a)
    \/ \E a \in ArgVals : OngoingSpawner(a)
    \/ \E a \in ArgVals : OngoingSpawnPoint(a)
    \/ \E a \in ArgVals : OngoingTeam(a)
    \/ \E a \in ArgVals : OngoingVehicle(a)
    \/ \E a \in ArgVals : OngoingVehicleSpawner(a)
    \/ \E a \in ArgVals : OngoingWaypointPath(a)
    \/ \E a \in ArgVals : OngoingWorldIcon(a)
    \/ \E a \in ArgVals : OnCapturePointCaptured(a)
    \/ \E a \in ArgVals : OnCapturePointCapturing(a)
    \/ \E a \in ArgVals : OnCapturePointLost(a)
    \/ OnGameModeEnding
    \/ \E a \in ArgVals : OnMCOMArmed(a)
    \/ \E a \in ArgVals : OnMCOMDefused(a)
    \/ \E a \in ArgVals : OnMCOMDestroyed(a)
    \/ \E a \in ArgTuples(2) : OnRingOfFireZoneSizeChange(a[1], a[2])
    \/ OnTimeLimitReached
    \/ \E a \in ArgVals : OnVehicleDestroyed(a)
    \/ \E a \in ArgVals : OnVehicleSpawned(a)
    \/ OnGameModeStarted /\ Len(listeners') <= MaxObservers

\* one call of the host
HostCalls ==
    \/ \E h \in Handles : OnPlayerJoinGame(h) /\ Len(heap') <= MaxInst
    \/ \E n \in Ids : OnPlayerLeaveGame(n)
    \/ \E h \in Handles : OngoingPlayer(h)
    \/ \E h \in Handles : OnAIMoveToFailed(h)
    \/ \E h \in Handles : OnAIMoveToRunning(h)
    \/ \E h \in Handles : OnAIMoveToSucceeded(h)
    \/ \E h \in Handles : OnAIParachuteRunning(h)
    \/ \E h \in Handles : OnAIParachuteSucceeded(h)
    \/ \E h \in Handles : OnAIWaypointIdleFailed(h)
    \/ \E h \in Handles : OnAIWaypointIdleRunning(h)
    \/ \E h \in Handles : OnAIWaypointIdleSucceeded(h)
    \/ \E h \in Handles : OnPlayerDeployed(h)
    \/ \E h \in Handles, a \in ArgTuples(1) : OnPlayerInteract(h, a)
    \/ \E h \in Handles, a \in ArgTuples(1) : OnPlayerEnterAreaTrigger(h, a)
    \/ \E h \in Handles, a \in ArgTuples(1) : OnPlayerExitAreaTrigger(h, a)
    \/ \E h \in Handles, a \in ArgTuples(1) : OnPlayerEnterCapturePoint(h, a)
    \/ \E h \in Handles, a \in ArgTuples(1) : OnPlayerExitCapturePoint(h, a)
    \/ \E h \in Handles, a \in ArgTuples(1) : OnPlayerEnterVehicle(h, a)
    \/ \E h \in Handles, a \in ArgTuples(1) : OnPlayerExitVehicle(h, a)
    \/ \E h \in Handles, a \in ArgTuples(2) : OnPlayerEnterVehicleSeat(h, a)
    \/ \E h \in Handles, a \in ArgTuples(2) : OnPlayerExitVehicleSeat(h, a)
    \/ \E h \in Handles, a \in ArgTuples(1) : OnPlayerSwitchTeam(h, a)
    \/ \E h \in Handles, a \in ArgTuples(2) : OnPlayerUIButtonEvent(h, a)
    \/ \E h \in Handles : OnPlayerUndeploy(h)
    \/ \E h \in Handles, a \in ArgTuples(2) : OnRayCastHit(h, a)
    \/ \E h \in Handles : OnRayCastMissed(h)
    \/ \E h \in Handles, a \in ArgTuples(1) : OnSpawnerSpawned(h, a)
    \/ \E h \in Handles, o \in Handles : OnMandown(h, o)
    \/ \E h \in Handles, o \in Handles, a \in ArgTuples(2) :
          OnPlayerDamaged(h, o, a)
    \/ \E h \in Handles, o \in Handles, a \in ArgTuples(2) :
          OnPlayerDied(h, o, a)
    \/ \E h \in Handles, o \in Handles, a \in ArgTuples(2) :
          OnPlayerEarnedKill(h, o, a)
    \/ \E h \in Handles, o \in Handles : OnPlayerEarnedKillAssist(h, o)
    \/ \E h \in Handles, o \in Handles : OnRevived(h, o)
    \/ OngoingGlobal
    \/ NoContextCalls
    \/ \E h \in Handles, b \in BOOLEAN : HostSetValid(h, b)

NextHost ==
    /\ \/ event = Idle /\ HostCalls
       \/ HostReturn
    /\ UNCHANGED <<joinLog, lastCalls>>
    /\ UNCHANGED fooVars

SpecHost == Init /\ [][NextHost]_vars

\* ------------------------------------------------------------------------
\* main.ts: the functions the engine calls.  The host calls one of them by
\* name with a tuple of arguments; lastCalls holds that call while it runs
\* ------------------------------------------------------------------------

\* the functions main.ts exports
MainNames ==
    { "OngoingGlobal", "OngoingAreaTrigger", "OngoingCapturePoint",
      "OngoingEmplacementSpawner", "OngoingHQ", "OngoingInteractPoint",
      "OngoingLootSpawner", "OngoingMCOM", "OngoingPlayer",
      "OngoingRingOfFire", "OngoingSector", "OngoingSpawner",
      "OngoingSpawnPoint", "OngoingTeam", "OngoingVehicle",
      "OngoingVehicleSpawner", "OngoingWaypointPath", "OngoingWorldIcon",
      "OnAIMoveToFailed", "OnAIMoveToRunning", "OnAIMoveToSucceeded",
      "OnAIParachuteRunning", "OnAIParachuteSucceeded",
      "OnAIWaypointIdleFailed", "OnAIWaypointIdleRunning",
      "OnAIWaypointIdleSucceeded", "OnCapturePointCaptured",
      "OnCapturePointCapturing", "OnCapturePointLost", "OnGameModeEnding",
      "OnGameModeStarted", "OnMandown", "OnMCOMArmed", "OnMCOMDefused",
      "OnMCOMDestroyed", "OnPlayerDamaged", "OnPlayerDeployed",
      "OnPlayerDied", "OnPlayerEarnedKill", "OnPlayerEarnedKillAssist",
      "OnPlayerEnterAreaTrigger", "OnPlayerEnterCapturePoint",
      "OnPlayerEnterVehicle", "OnPlayerEnterVehicleSeat",
      "OnPlayerExitAreaTrigger", "OnPlayerExitCapturePoint",
      "OnPlayerExitVehicle", "OnPlayerExitVehicleSeat", "OnPlayerInteract",
      "OnPlayerJoinGame", "OnPlayerLeaveGame", "OnPlayerSwitchTeam",
      "OnPlayerUIButtonEvent", "OnPlayerUndeploy", "OnRayCastHit",
      "OnRayCastMissed", "OnRevived", "OnRingOfFireZoneSizeChange",
      "OnSpawnerSpawned", "OnTimeLimitReached", "OnVehicleDestroyed",
      "OnVehicleSpawned" }

\* those whose first parameter is eventPlayer
WithPlayer ==
    { "OngoingPlayer", "OnAIMoveToFailed", "OnAIMoveToRunning",
      "OnAIMoveToSucceeded", "OnAIParachuteRunning",
      "OnAIParachuteSucceeded", "OnAIWaypointIdleFailed",
      "OnAIWaypointIdleRunning", "OnAIWaypointIdleSucceeded",
      "OnPlayerDeployed", "OnPlayerEnterAreaTrigger",
      "OnPlayerEnterCapturePoint", "OnPlayerEnterVehicle",
      "OnPlayerEnterVehicleSeat", "OnPlayerExitAreaTrigger",
      "OnPlayerExitCapturePoint", "OnPlayerExitVehicle",
      "OnPlayerExitVehicleSeat", "OnPlayerInteract", "OnPlayerJoinGame",
      "OnPlayerSwitchTeam", "OnPlayerUIButtonEvent", "OnPlayerUndeploy",
      "OnRayCastHit", "OnRayCastMissed", "OnSpawnerSpawned", "OnMandown",
      "OnPlayerDamaged", "OnPlayerDied", "OnPlayerEarnedKill",
      "OnPlayerEarnedKillAssist", "OnRevived" }

\* those whose second parameter is eventOtherPlayer
WithOtherPlayer ==
    { "OnMandown", "OnPlayerDamaged", "OnPlayerDied", "OnPlayerEarnedKill",
      "OnPlayerEarnedKillAssist", "OnRevived" }

\* the number of parameters of a function after the players: none, one
\* (the names listed first) or two
PayloadCount(name) ==
    IF name \in
         { "OngoingAreaTrigger", "OngoingCapturePoint",
           "OngoingEmplacementSpawner", "OngoingHQ",
           "OngoingInteractPoint", "OngoingLootSpawner", "OngoingMCOM",
           "OngoingRingOfFire", "OngoingSector", "OngoingSpawner",
           "OngoingSpawnPoint", "OngoingTeam", "OngoingVehicle",
           "OngoingVehicleSpawner", "OngoingWaypointPath",
           "OngoingWorldIcon", "OnCapturePointCaptured",
           "OnCapturePointCapturing", "OnCapturePointLost", "OnMCOMArmed",
           "OnMCOMDefused", "OnMCOMDestroyed", "OnPlayerEnterAreaTrigger",
           "OnPlayerEnterCapturePoint", "OnPlayerEnterVehicle",
           "OnPlayerExitAreaTrigger", "OnPlayerExitCapturePoint",
           "OnPlayerExitVehicle", "OnPlayerInteract", "OnPlayerSwitchTeam",
           "OnSpawnerSpawned", "OnVehicleDestroyed", "OnVehicleSpawned" }
    THEN 1
    ELSE IF name \in
         { "OnPlayerDamaged", "OnPlayerDied", "OnPlayerEarnedKill",
           "OnPlayerEnterVehicleSeat", "OnPlayerExitVehicleSeat",
           "OnPlayerUIButtonEvent", "OnRayCastHit",
           "OnRingOfFireZoneSizeChange" }
    THEN 2
    ELSE 0

\* the argument tuples the host passes to a function: live or stale
\* handles for the players, an id for a leave, payload values that differ
\* by position
HostArgs(name) ==
    LET payload == IF name = "OnPlayerLeaveGame"
                   THEN { <<n>> : n \in Ids }
                   ELSE ArgTuples(PayloadCount(name))
        handles == IF name \in WithOtherPlayer
                   THEN { <<h, o>> : h \in Handles, o \in Handles }
                   ELSE IF name \in WithPlayer
                   THEN { <<h>> : h \in Handles }
                   ELSE { <<>> }
    IN  { h \o x : h \in handles, x \in payload }

\* gameMode._internal[name](...a): the router function of that name applied
\* to the arguments in order
internal(name, a) ==
    CASE name = "OngoingGlobal" -> OngoingGlobal
      [] name = "OngoingAreaTrigger" -> OngoingAreaTrigger(a[1])
      [] name = "OngoingCapturePoint" -> OngoingCapturePoint(a[1])
      [] name = "OngoingEmplacementSpawner" -> OngoingEmplacementSpawner(a[1])
      [] name = "OngoingHQ" -> OngoingHQ(a[1])
      [] name = "OngoingInteractPoint" -> OngoingInteractPoint(a[1])
      [] name = "OngoingLootSpawner" -> OngoingLootSpawner(a[1])
      [] name = "OngoingMCOM" -> OngoingMCOM(a[1])
      [] name = "OngoingPlayer" -> OngoingPlayer(a[1])
      [] name = "OngoingRingOfFire" -> OngoingRingOfFire(a[1])
      [] name = "OngoingSector" -> OngoingSector(a[1])
      [] name = "OngoingSpawner" -> OngoingSpawner(a[1])
      [] name = "OngoingSpawnPoint" -> OngoingSpawnPoint(a[1])
      [] name = "OngoingTeam" -> OngoingTeam(a[1])
      [] name = "OngoingVehicle" -> OngoingVehicle(a[1])
      [] name = "OngoingVehicleSpawner" -> OngoingVehicleSpawner(a[1])
      [] name = "OngoingWaypointPath" -> OngoingWaypointPath(a[1])
      [] name = "OngoingWorldIcon" -> OngoingWorldIcon(a[1])
      [] name = "OnAIMoveToFailed" -> OnAIMoveToFailed(a[1])
      [] name = "OnAIMoveToRunning" -> OnAIMoveToRunning(a[1])
      [] name = "OnAIMoveToSucceeded" -> OnAIMoveToSucceeded(a[1])
      [] name = "OnAIParachuteRunning" -> OnAIParachuteRunning(a[1])
      [] name = "OnAIParachuteSucceeded" -> OnAIParachuteSucceeded(a[1])
      [] name = "OnAIWaypointIdleFailed" -> OnAIWaypointIdleFailed(a[1])
      [] name = "OnAIWaypointIdleRunning" -> OnAIWaypointIdleRunning(a[1])
      [] name = "OnAIWaypointIdleSucceeded" -> OnAIWaypointIdleSucceeded(a[1])
      [] name = "OnCapturePointCaptured" -> OnCapturePointCaptured(a[1])
      [] name = "OnCapturePointCapturing" -> OnCapturePointCapturing(a[1])
      [] name = "OnCapturePointLost" -> OnCapturePointLost(a[1])
      [] name = "OnGameModeEnding" -> OnGameModeEnding
      [] name = "OnGameModeStarted" -> OnGameModeStarted
      [] name = "OnMandown" -> OnMandown(a[1], a[2])
      [] name = "OnMCOMArmed" -> OnMCOMArmed(a[1])
      [] name = "OnMCOMDefused" -> OnMCOMDefused(a[1])
      [] name = "OnMCOMDestroyed" -> OnMCOMDestroyed(a[1])
      [] name = "OnPlayerDamaged" ->
            OnPlayerDamaged(a[1], a[2], SubSeq(a, 3, 4))
      [] name = "OnPlayerDeployed" -> OnPlayerDeployed(a[1])
      [] name = "OnPlayerDied" -> OnPlayerDied(a[1], a[2], SubSeq(a, 3, 4))
      [] name = "OnPlayerEarnedKill" ->
            OnPlayerEarnedKill(a[1], a[2], SubSeq(a, 3, 4))
      [] name = "OnPlayerEarnedKillAssist" ->
            OnPlayerEarnedKillAssist(a[1], a[2])
      [] name = "OnPlayerEnterAreaTrigger" ->
            OnPlayerEnterAreaTrigger(a[1], SubSeq(a, 2, 2))
      [] name = "OnPlayerEnterCapturePoint" ->
            OnPlayerEnterCapturePoint(a[1], SubSeq(a, 2, 2))
      [] name = "OnPlayerEnterVehicle" ->
            OnPlayerEnterVehicle(a[1], SubSeq(a, 2, 2))
      [] name = "OnPlayerEnterVehicleSeat" ->
            OnPlayerEnterVehicleSeat(a[1], SubSeq(a, 2, 3))
      [] name = "OnPlayerExitAreaTrigger" ->
            OnPlayerExitAreaTrigger(a[1], SubSeq(a, 2, 2))
      [] name = "OnPlayerExitCapturePoint" ->
            OnPlayerExitCapturePoint(a[1], SubSeq(a, 2, 2))
      [] name = "OnPlayerExitVehicle" ->
            OnPlayerExitVehicle(a[1], SubSeq(a, 2, 2))
      [] name = "OnPlayerExitVehicleSeat" ->
            OnPlayerExitVehicleSeat(a[1], SubSeq(a, 2, 3))
      [] name = "OnPlayerInteract" -> OnPlayerInteract(a[1], SubSeq(a, 2, 2))
      [] name = "OnPlayerJoinGame" -> OnPlayerJoinGame(a[1])
      [] name = "OnPlayerLeaveGame" -> OnPlayerLeaveGame(a[1])
      [] name = "OnPlayerSwitchTeam" ->
            OnPlayerSwitchTeam(a[1], SubSeq(a, 2, 2))
      [] name = "OnPlayerUIButtonEvent" ->
            OnPlayerUIButtonEvent(a[1], SubSeq(a, 2, 3))
      [] name = "OnPlayerUndeploy" -> OnPlayerUndeploy(a[1])
      [] name = "OnRayCastHit" -> OnRayCastHit(a[1], SubSeq(a, 2, 3))
      [] name = "OnRayCastMissed" -> OnRayCastMissed(a[1])
      [] name = "OnRevived" -> OnRevived(a[1], a[2])
      [] name = "OnRingOfFireZoneSizeChange" ->
            OnRingOfFireZoneSizeChange(a[1], a[2])
      [] name = "OnSpawnerSpawned" -> OnSpawnerSpawned(a[1], SubSeq(a, 2, 2))
      [] name = "OnTimeLimitReached" -> OnTimeLimitReached
      [] name = "OnVehicleDestroyed" -> OnVehicleDestroyed(a[1])
      [] name = "OnVehicleSpawned" -> OnVehicleSpawned(a[1])

\* the exported function with its first two arguments exchanged in the
\* call of the router
main_SwapFirstTwo(name, a) ==
    /\ lastCalls' = <<[name |-> name, args |-> a]>>
    /\ internal(name,
                IF Len(a) >= 2
                THEN <<a[2], a[1]>> \o SubSeq(a, 3, Len(a))
                ELSE a)

\* an exported function of main.ts: its one statement calls the router
\* function of its own name with its parameters as they came
main(name, a) ==
    /\ lastCalls' = <<[name |-> name, args |-> a]>>
    /\ internal(name, a)

\* one call of the engine
MainCalls ==
    \E name \in MainNames :
        \E a \in HostArgs(name) :
            /\ main(name, a)
            /\ Len(heap') <= MaxInst
            /\ Len(listeners') <= MaxObservers

\* the call returns to the engine
MainReturn == HostReturn /\ lastCalls' = <<>>

NextMain ==
    /\ \/ event = Idle /\ MainCalls
       \/ MainReturn
       \/ /\ event = Idle
          /\ \E h \in Handles, b \in BOOLEAN : HostSetValid(h, b)
          /\ UNCHANGED lastCalls
    /\ UNCHANGED joinLog
    /\ UNCHANGED fooVars

SpecMain == Init /\ [][NextMain]_vars

\* ------------------------------------------------------------------------
\* Example_FooClass: the throttle.  The engine starts the mode, which
\* constructs an Example_FooClass, and ticks; each onTick reads the clock,
\* whose readings do not decrease
\* ------------------------------------------------------------------------

\* Example_FooClass.interval, in ms
interval == 4000

\* the largest clock reading considered
MaxClock == 12001

\* by how much a clock reading exceeds the one before
ClockSteps == {0, interval - 1, interval, interval + 1}

\* onTick running its action whenever one ms less than the interval has
\* passed
onTick_OneShort(last, now) ==
    IF now - last < interval - 1
    THEN [lastTime |-> last, ran |-> FALSE]
    ELSE [lastTime |-> now, ran |-> TRUE]

\* Example_FooClass.onTick with Date.now() = now: returns early while less
\* than the interval has passed since lastTime, else stores now in lastTime
\* and runs the action (the two log calls); gives lastTime afterwards and
\* whether the action ran
onTick(last, now) ==
    IF now - last < interval
    THEN [lastTime |-> last, ran |-> FALSE]
    ELSE [lastTime |-> now, ran |-> TRUE]

\* the readings at which an action ran, with one more: the last two
Ran(log, now) ==
    IF Len(log) = 2 THEN <<log[2], now>> ELSE Append(log, now)

\* the mode starts: OnGameModeStarted, with the field initialisers of the
\* Example_FooClass it constructs (lastTime = 0)
FooStarted ==
    /\ OnGameModeStarted
    /\ Len(listeners') <= MaxObservers
    /\ lastTime' = Append(lastTime, 0)
    /\ ranAt' = Append(ranAt, <<>>)
    /\ UNCHANGED clock

\* a global tick while the clock reads now: OngoingGlobal, with the onTick
\* of every Example_FooClass whose listener the emit calls
FooTick(now) ==
    /\ OngoingGlobal
    /\ clock' = now
    /\ LET called ==
               { n \in 1..Len(lastTime) :
                   \E k \in 1..Len(trace') :
                      /\ trace'[k].kind = "observer"
                      /\ trace'[k].listener = FooListener(n) }
       IN  /\ lastTime' = [n \in 1..Len(lastTime) |->
                              IF n \in called
                              THEN onTick(lastTime[n], now).lastTime
                              ELSE lastTime[n]]
           /\ ranAt' = [n \in 1..Len(ranAt) |->
                           IF n \in called /\ onTick(lastTime[n], now).ran
                           THEN Ran(ranAt[n], now)
                           ELSE ranAt[n]]

FooCalls ==
    \/ FooStarted
    \/ \E d \in ClockSteps :
          /\ clock + d <= MaxClock
          /\ FooTick(clock + d)

NextFoo ==
    /\ \/ event = Idle /\ FooCalls
       \/ HostReturn /\ UNCHANGED fooVars
    /\ UNCHANGED <<joinLog, lastCalls>>

SpecFoo == Init /\ [][NextFoo]_vars

\* ------------------------------------------------------------------------
\* Properties
\* ------------------------------------------------------------------------

\* the entry points with one player
SinglePlayerEntryPoints ==
    { "OngoingPlayer", "OnPlayerDeployed", "OnPlayerUndeploy",
      "OnPlayerInteract", "OnPlayerEnterAreaTrigger",
      "OnPlayerExitAreaTrigger", "OnPlayerEnterCapturePoint",
      "OnPlayerExitCapturePoint", "OnPlayerEnterVehicle",
      "OnPlayerExitVehicle", "OnPlayerEnterVehicleSeat",
      "OnPlayerExitVehicleSeat", "OnPlayerSwitchTeam",
      "OnPlayerUIButtonEvent", "OnRayCastHit", "OnRayCastMissed",
      "OnSpawnerSpawned", "OnAIMoveToFailed", "OnAIMoveToRunning",
      "OnAIMoveToSucceeded", "OnAIParachuteRunning",
      "OnAIParachuteSucceeded", "OnAIWaypointIdleFailed",
      "OnAIWaypointIdleRunning", "OnAIWaypointIdleSucceeded" }

\* the entry points with an acting and an other player
TwoPlayerEntryPoints ==
    { "OnMandown", "OnPlayerDamaged", "OnPlayerDied", "OnPlayerEarnedKill",
      "OnPlayerEarnedKillAssist", "OnRevived" }

PerPlayerEntryPoints == SinglePlayerEntryPoints \cup TwoPlayerEntryPoints

\* the entry points without player context
NoContextEntryPoints ==
    { "OngoingAreaTrigger", "OngoingCapturePoint",
      "OngoingEmplacementSpawner", "OngoingHQ", "OngoingInteractPoint",
      "OngoingLootSpawner", "OngoingMCOM", "OngoingRingOfFire",
      "OngoingSector", "OngoingSpawner", "OngoingSpawnPoint",
      "OngoingTeam", "OngoingVehicle", "OngoingVehicleSpawner",
      "OngoingWaypointPath", "OngoingWorldIcon", "OnCapturePointCaptured",
      "OnCapturePointCapturing", "OnCapturePointLost", "OnGameModeEnding",
      "OnMCOMArmed", "OnMCOMDefused", "OnMCOMDestroyed",
      "OnRingOfFireZoneSizeChange", "OnTimeLimitReached",
      "OnVehicleDestroyed", "OnVehicleSpawned", "OnGameModeStarted" }

\* the running entry point has no player context, called its hook once
\* with the arguments it received and left the manager, the registry and
\* every player as they were
ForwardedToHook ==
    /\ ~threw
    /\ trace = <<Hook(event.name, Undefined, Undefined, event.args,
                      before.playerManager.players, before.heap)>>
    /\ playerManager = before.playerManager
    /\ heap = before.heap

\* the calls of one kind the running entry point made, in order
Calls_(kind) == SelectSeq(trace, LAMBDA r : r.kind = kind)

\* the registry when the running call started
PlayersBefore == before.playerManager.players

\* the lookup of handle h at the start of the running call succeeds: there
\* is a manager, the host reports h live and its id has an entry
Resolves(h) ==
    /\ before.playerManager.defined
    /\ valid[h]
    /\ \E i \in 1..Len(PlayersBefore) : PlayersBefore[i].id = GetObjId(h)

\* the player registered under the id of h when the running call started
PlayerOf(h) ==
    LET i == CHOOSE i \in 1..Len(PlayersBefore) :
                 PlayersBefore[i].id = GetObjId(h)
    IN  PlayersBefore[i].lp

\* there is a manager and neither getById of the id nor get of a handle
\* with the id gives a player
Absent(id) ==
    /\ playerManager.defined
    /\ getById(playerManager.players, id) = Undefined
    /\ \A h \in Handles :
          GetObjId(h) = id => get(playerManager.players, h) = Undefined

\* the bus whose emit ran last is a player's or the mode's
EmitRan == event.name \in {"emit", "OngoingGlobal"}

\* the capability the emit that ran last published
Published == IF event.name = "emit" THEN event.args[1] ELSE "OngoingGlobal"

\* the arguments the emit that ran last published
PublishedArgs == IF event.name = "emit" THEN Tail(event.args) ELSE <<>>

\* the subscriptions of the bus when the emit that ran last started
Subscribed ==
    IF event.name = "emit"
    THEN before.heap[event.lp].listeners
    ELSE before.listeners

\* the subscriptions of the bus now
SubscribedNow ==
    IF event.name = "emit" THEN heap[event.lp].listeners ELSE listeners

\* the listener calls the emit that ran last made, in order
Invoked ==
    SelectSeq(trace, LAMBDA r : r.kind \in {"listener", "observer"})

\* what the callbacks of the subscriptions that implement the published
\* capability do to the bus
CallbackOps ==
    { Effect(Subscribed[k]).op :
        k \in { m \in 1..Len(Subscribed) : Published \in Caps(Subscribed[m]) } }

\* the subscriptions in list ls that implement the capability, in order
Capable(ls, name) == SelectSeq(ls, LAMBDA l : name \in Caps(l))

\* the number of calls of one kind made on the bus of player s to listener l
CountCalls(kind, s, l) ==
    Cardinality({ k \in 1..Len(trace) :
                    /\ trace[k].kind = kind
                    /\ trace[k].subject = s
                    /\ trace[k].listener = l })

\* the number of subscriptions of listener l in list ls that implement name
CountSubscriptions(ls, l, name) ==
    Cardinality({ k \in 1..Len(ls) : ls[k] = l /\ name \in Caps(l) })


\* C1: after joins of pairwise distinct ids and no leave, the registry has
\* exactly one entry per joined id and no other entry, and getById of a
\* joined id is the player that id's join created and passed to its hook.
RegistryMatchesJoins ==
    LET players == playerManager.players
    IN  /\ Len(players) = Len(joinLog)
        /\ \A k \in 1..Len(joinLog) :
              /\ joinLog[k].created # Undefined
              /\ joinLog[k].hooked = joinLog[k].created
              /\ getById(players, joinLog[k].id) = joinLog[k].created
              /\ Cardinality({ i \in 1..Len(players) :
                                 players[i].id = joinLog[k].id }) = 1
        /\ \A i \in 1..Len(players) :
              \E k \in 1..Len(joinLog) : joinLog[k].id = players[i].id
        /\ \A k, m \in 1..Len(joinLog) :
              joinLog[k].created = joinLog[m].created => k = m

\* C1 witness: three players with distinct ids have joined
ThreeJoined ==
    /\ Len(joinLog) = 3
    /\ event.name = "OnPlayerJoinGame"
    /\ Len(playerManager.players) = 3


\* C2: each registry key has one entry, whose player carries a handle of
\* that id; a player's handle never changes; an id that has an entry before
\* and after a call has the same player in it; and every player a hook or a
\* listener receives is the one the registry holds for its id at that call.
StableIdentity ==
    LET players == playerManager.players
        held(r, lp) ==
            \E i \in 1..Len(r.players) :
                /\ r.players[i].lp = lp
                /\ r.players[i].id = GetObjId(heap[lp].player)
    IN  /\ \A i, j \in 1..Len(players) :
              players[i].id = players[j].id => i = j
        /\ \A i \in 1..Len(players) :
              /\ players[i].lp \in 1..Len(heap)
              /\ GetObjId(heap[players[i].lp].player) = players[i].id
        /\ \A i \in 1..Len(before.heap) :
              heap[i].player = before.heap[i].player
        /\ \A i \in 1..Len(PlayersBefore), j \in 1..Len(players) :
              PlayersBefore[i].id = players[j].id
                  => PlayersBefore[i].lp = players[j].lp
        /\ \A k \in 1..Len(trace) :
              trace[k].kind \in {"hook", "listener"} =>
                  /\ trace[k].lp # Undefined => held(trace[k], trace[k].lp)
                  /\ trace[k].other # Undefined
                        => held(trace[k], trace[k].other)

\* C2 witness: a player that left and joined again acts, and its hook is
\* called with the second player created for its handle
RejoinedPlayerActs ==
    /\ event.name \in SinglePlayerEntryPoints
    /\ Len(trace) > 0
    /\ \E i \in 1..Len(heap) :
          /\ i < trace[Len(trace)].lp
          /\ heap[i].player = event.player

\* C3: when a player joins under an id without an entry, every subscription
\* of every player registered before that implements OnPlayerJoinGame is
\* called exactly once, with the new player, and nothing is emitted on the
\* new player's own bus.
JoinNotifiesPeers ==
    (/\ event.name = "OnPlayerJoinGame"
     /\ ~\E i \in 1..Len(PlayersBefore) :
            PlayersBefore[i].id = GetObjId(event.player))
    => LET new == OnlyCall(trace, "hook", "OnPlayerJoinGame")
       IN  /\ new # Undefined
           /\ \A k \in 1..Len(trace) :
                 /\ trace[k].kind = "emit" => trace[k].subject # new
                 /\ trace[k].kind = "listener" =>
                       /\ trace[k].name = "OnPlayerJoinGame"
                       /\ trace[k].lp = new
                       /\ trace[k].subject # new
                       /\ \E i \in 1..Len(PlayersBefore) :
                             PlayersBefore[i].lp = trace[k].subject
           /\ \A i \in 1..Len(PlayersBefore) :
                 LET s == PlayersBefore[i].lp
                     ls == before.heap[s].listeners
                 IN  \A m \in 1..Len(ls) :
                         CountCalls("listener", s, ls[m])
                         = CountSubscriptions(ls, ls[m], "OnPlayerJoinGame")

\* C3 witness: a third player joins while two players with a listener for
\* OnPlayerJoinGame each are registered
JoinWithTwoPeers ==
    /\ event.name = "OnPlayerJoinGame"
    /\ Len(PlayersBefore) = 2
    /\ Len(playerManager.players) = 3
    /\ Len(Calls_("listener")) = 2

\* C4: an entry point with one player called with a handle the host reports
\* invalid calls no hook and no listener and leaves the registry and every
\* player as they were.
InvalidHandleDropped ==
    (/\ event.name \in SinglePlayerEntryPoints
     /\ ~valid[event.player])
    => /\ Calls_("hook") = <<>>
       /\ Calls_("listener") = <<>>
       /\ playerManager = before.playerManager
       /\ heap = before.heap

\* C4 witness: the invalid handle's id still has an entry, whose player has
\* a listener for the event
InvalidHandleOfRegisteredPlayer ==
    /\ event.name \in SinglePlayerEntryPoints
    /\ ~valid[event.player]
    /\ \E i \in 1..Len(playerManager.players) :
          /\ playerManager.players[i].id = GetObjId(event.player)
          /\ Capable(heap[playerManager.players[i].lp].listeners,
                     event.name) # <<>>


\* C5: no entry point of the router raises an error, in any state.
NeverThrows == ~threw

\* C6: in a call of an entry point with players, a hook is called only if
\* the acting player's lookup succeeded, and either the acting player's bus
\* is emitted to once and the hook is called once, with that player, or
\* nothing is called at all.
NoPartialDispatch ==
    event.name \in PerPlayerEntryPoints
    => LET hooks == Calls_("hook")
           emits == Calls_("emit")
       IN  /\ hooks # <<>> => Resolves(event.player)
           /\ Resolves(event.player) =>
                 /\ Len(hooks) = 1
                 /\ hooks[1].name = event.name
                 /\ hooks[1].lp = PlayerOf(event.player)
                 /\ Len(emits) = 1
                 /\ emits[1].name = event.name
                 /\ emits[1].subject = PlayerOf(event.player)
           /\ ~Resolves(event.player) => trace = <<>>
           /\ \A k \in 1..Len(trace) :
                 trace[k].kind \in {"emit", "listener", "hook"}
           /\ \A k \in 1..Len(trace) :
                 trace[k].kind = "listener" =>
                     /\ Resolves(event.player)
                     /\ trace[k].subject = PlayerOf(event.player)

\* C6 witness: a dispatched event with a listener called and the hook called
DispatchedWithListener ==
    /\ event.name \in PerPlayerEntryPoints
    /\ Calls_("listener") # <<>>
    /\ Calls_("hook") # <<>>

NotifyThenHook ==
    (/\ event.name \in PerPlayerEntryPoints
     /\ Resolves(event.player))
    => LET lp == PlayerOf(event.player)
           capable == Capable(before.heap[lp].listeners, event.name)
           n == Len(capable)
       IN  /\ Len(trace) = n + 2
           /\ trace[1].kind = "emit"
           /\ trace[1].subject = lp
           /\ \A k \in 1..n :
                 /\ trace[k + 1].kind = "listener"
                 /\ trace[k + 1].name = event.name
                 /\ trace[k + 1].subject = lp
                 /\ trace[k + 1].listener = capable[k]
           /\ trace[n + 2].kind = "hook"
           /\ trace[n + 2].name = event.name
           /\ trace[n + 2].lp = lp

\* C8 witness: two listeners are notified, then the hook is called
TwoListenersThenHook ==
    /\ event.name \in PerPlayerEntryPoints
    /\ Len(trace) = 4
    /\ trace[4].kind = "hook"

AbsentOtherIsUndefined ==
    (/\ event.name \in TwoPlayerEntryPoints
     /\ Resolves(event.player)
     /\ ~Resolves(event.other))
    => LET lp == PlayerOf(event.player)
           ls == before.heap[lp].listeners
           hooks == Calls_("hook")
           calls == Calls_("listener")
       IN  /\ ~threw
           /\ Len(hooks) = 1
           /\ hooks[1].name = event.name
           /\ hooks[1].lp = lp
           /\ hooks[1].other = Undefined
           /\ Len(calls) = Len(Capable(ls, event.name))
           /\ \A k \in 1..Len(calls) :
                 /\ calls[k].name = event.name
                 /\ calls[k].subject = lp
                 /\ calls[k].other = Undefined
           /\ \A m \in 1..Len(ls) :
                 CountCalls("listener", lp, ls[m])
                 = CountSubscriptions(ls, ls[m], event.name)

\* C10 witness: damage by a live handle whose id never joined, on a player
\* with a listener for it
DamageByNeverJoined ==
    /\ event.name = "OnPlayerDamaged"
    /\ Resolves(event.player)
    /\ valid[event.other]
    /\ \A i \in 1..Len(heap) : heap[i].player # event.other
    /\ Len(Calls_("listener")) = 1
    /\ Len(Calls_("hook")) = 1

\* C11: an event with two players whose acting player does not resolve
\* makes no call at all (no listener of any player, no hook) and leaves the
\* registry and every player as they were, also when the other player
\* resolves.
ActingPlayerRequired ==
    (/\ event.name \in TwoPlayerEntryPoints
     /\ ~Resolves(event.player))
    => /\ trace = <<>>
       /\ playerManager = before.playerManager
       /\ heap = before.heap
       /\ before.playerManager.defined => ~threw

\* C11 witness: the acting handle is invalid while the other player is
\* registered, live and has a listener for the event
OtherResolvesActingDoesNot ==
    /\ event.name \in TwoPlayerEntryPoints
    /\ ~Resolves(event.player)
    /\ Resolves(event.other)
    /\ Capable(heap[PlayerOf(event.other)].listeners, event.name) # <<>>

\* C12: a global tick calls, in order: the emit on the mode's bus, the
\* OngoingGlobal capability of each subscription of the mode that
\* implements it, once per subscription and in subscription order, and
\* last the OngoingGlobal hook, once; the subscriptions are left as they
\* were.
TickObserversThenHook ==
    event.name = "OngoingGlobal"
    => LET capable == Capable(before.listeners, "OngoingGlobal")
           n == Len(capable)
       IN  /\ Len(trace) = n + 2
           /\ trace[1].kind = "modeEmit"
           /\ \A k \in 1..n :
                 /\ trace[k + 1].kind = "observer"
                 /\ trace[k + 1].name = "OngoingGlobal"
                 /\ trace[k + 1].listener = capable[k]
           /\ trace[n + 2].kind = "hook"
           /\ trace[n + 2].name = "OngoingGlobal"
           /\ listeners = before.listeners
           /\ ~threw

\* C12 witness: a tick with two different observers that implement
\* OngoingGlobal and one that does not between them
TickWithTwoObservers ==
    /\ event.name = "OngoingGlobal"
    /\ Len(listeners) = 3
    /\ Caps(listeners[2]) = {}
    /\ listeners[1] # listeners[3]
    /\ Len(Calls_("observer")) = 2
    /\ trace[Len(trace)].kind = "hook"

\* C13: the second of two leaves of the same id in a row calls no hook and
\* no listener and changes nothing: the registry, every player and the
\* mode's observers are as the first leave left them, with no entry under
\* the id.
LeaveIdempotent ==
    (/\ event.name = "OnPlayerLeaveGame"
     /\ Len(lastCalls) >= 2
     /\ lastCalls[Len(lastCalls) - 1] = lastCalls[Len(lastCalls)])
    => /\ trace = <<>>
       /\ playerManager = before.playerManager
       /\ heap = before.heap
       /\ listeners = before.listeners
       /\ getById(playerManager.players, event.number) = Undefined

\* C13 witness: a player joins, leaves and the leave is repeated, while
\* another player is registered
JoinLeaveLeave ==
    /\ event.name = "OnPlayerLeaveGame"
    /\ Len(lastCalls) = 3
    /\ lastCalls[1].name = "OnPlayerJoinGame"
    /\ GetObjId(lastCalls[1].player) = event.number
    /\ lastCalls[2] = lastCalls[3]
    /\ Len(playerManager.players) = 1
    /\ \E i \in 1..Len(heap) :
          /\ GetObjId(heap[i].player) = event.number
          /\ ~Registered(i)

\* C14: a leave of an id without a registry entry returns normally, calls
\* nothing and changes nothing, in every state, the initial one included.
LeaveOfAbsentIdIsNoOp ==
    (/\ event.name = "OnPlayerLeaveGame"
     /\ ~\E i \in 1..Len(PlayersBefore) : PlayersBefore[i].id = event.number)
    => /\ ~threw
       /\ trace = <<>>
       /\ playerManager = before.playerManager
       /\ heap = before.heap

\* C15: when a leave of an id returns, getById of the id and get of every
\* handle with the id give undefined, and an id for which this holds keeps
\* it through every call except a join of that id.
AbsentUntilNextJoin ==
    [][\A id \in Ids :
          /\ (/\ event = Idle
              /\ event'.name = "OnPlayerLeaveGame"
              /\ event'.number = id
              /\ ~threw')
             => Absent(id)'
          /\ (/\ Absent(id)
              /\ ~(/\ event = Idle
                   /\ event'.name = "OnPlayerJoinGame"
                   /\ GetObjId(event'.player) = id))
             => Absent(id)']_vars

\* C15 witness: a live handle whose player has left deploys and is not
\* resolved
DeployAfterLeave ==
    /\ event.name = "OnPlayerDeployed"
    /\ valid[event.player]
    /\ trace = <<>>
    /\ Absent(GetObjId(event.player))
    /\ \E i \in 1..Len(heap) : heap[i].player = event.player

\* C16: a player that is not in the registry (it was removed by a leave)
\* has no listener, every listener call is made on the bus of a player that
\* is registered at that call, and an emit on a removed player calls no
\* listener.
DetachedOnLeave ==
    /\ \A inst \in 1..Len(heap) :
          ~Registered(inst) => heap[inst].listeners = <<>>
    /\ \A k \in 1..Len(trace) :
          trace[k].kind = "listener"
              => \E i \in 1..Len(trace[k].players) :
                     trace[k].players[i].lp = trace[k].subject
    /\ event.name = "emit" => trace = <<trace[1]>> /\ trace[1].kind = "emit"

\* C16 witness: game code emits OnPlayerDeployed, which the constructor's
\* listener implements, on a player removed by a leave
EmitOnRemovedPlayer ==
    /\ event.name = "emit"
    /\ event.args = <<"OnPlayerDeployed">>
    /\ ~Registered(event.lp)
    /\ CtorListener(event.lp) \notin
          { heap[event.lp].listeners[m] :
              m \in 1..Len(heap[event.lp].listeners) }

\* C17: a join of an id whose earlier player was removed by a leave creates
\* a new player, different from every player constructed before, registers
\* it under the id with only the listener its own constructor subscribed,
\* leaves the earlier players as they were, and emits OnPlayerJoinGame with
\* the new player on the bus of each registered peer, once.
RejoinCreatesFresh ==
    (/\ event.name = "OnPlayerJoinGame"
     /\ ~\E i \in 1..Len(PlayersBefore) :
            PlayersBefore[i].id = GetObjId(event.player)
     /\ \E i \in 1..Len(before.heap) :
            GetObjId(before.heap[i].player) = GetObjId(event.player))
    => LET new == OnlyCall(trace, "hook", "OnPlayerJoinGame")
       IN  /\ new = Len(before.heap) + 1
           /\ new \notin 1..Len(before.heap)
           /\ OnlyCall(trace, "create", "createPlayer") = new
           /\ getById(playerManager.players, GetObjId(event.player)) = new
           /\ heap[new].listeners = <<CtorListener(new)>>
           /\ \A i \in 1..Len(before.heap) :
                 /\ heap[i] = before.heap[i]
                 /\ CtorListener(new) # CtorListener(i)
           /\ \A i \in 1..Len(PlayersBefore) :
                 Cardinality({ k \in 1..Len(trace) :
                     /\ trace[k].kind = "emit"
                     /\ trace[k].name = "OnPlayerJoinGame"
                     /\ trace[k].subject = PlayersBefore[i].lp
                     /\ trace[k].lp = new }) = 1

\* C17 witness: a player joins again after its leave while a peer with a
\* listener for OnPlayerJoinGame is registered
RejoinWithPeer ==
    /\ event.name = "OnPlayerJoinGame"
    /\ Len(PlayersBefore) = 1
    /\ Len(playerManager.players) = 2
    /\ \E i \in 1..Len(before.heap) :
          before.heap[i].player = event.player
    /\ Len(Calls_("listener")) = 1

\* C18: a join of an id that has an entry constructs nothing, emits on no
\* bus and calls no listener; the registry and every player, listener lists
\* included, are unchanged, and the player handed on (to the join hook) is
\* the one the entry held.
ExistingPlayerReturned ==
    (/\ event.name = "OnPlayerJoinGame"
     /\ \E i \in 1..Len(PlayersBefore) :
            PlayersBefore[i].id = GetObjId(event.player))
    => /\ Len(trace) = 1
       /\ trace[1].kind = "hook"
       /\ trace[1].lp = getById(PlayersBefore, GetObjId(event.player))
       /\ Calls_("create") = <<>>
       /\ Calls_("emit") = <<>>
       /\ Calls_("listener") = <<>>
       /\ playerManager = before.playerManager
       /\ heap = before.heap

\* C18 witness: a registered player joins again while a peer with a
\* listener for OnPlayerJoinGame is registered
JoinOfRegisteredId ==
    /\ event.name = "OnPlayerJoinGame"
    /\ Len(PlayersBefore) = 2
    /\ Len(playerManager.players) = 2
    /\ \E i \in 1..Len(PlayersBefore) :
          /\ PlayersBefore[i].id # GetObjId(event.player)
          /\ Capable(heap[PlayersBefore[i].lp].listeners,
                     "OnPlayerJoinGame") # <<>>

\* C19: in a join of an id without an entry, every emit to a peer and every
\* peer listener call sees the registry with the new player under its id
\* and the new player constructed (its handle set, its constructor's
\* listener subscribed), and they all come before the join hook, which is
\* the last call.
InsertBeforeBroadcast ==
    (/\ event.name = "OnPlayerJoinGame"
     /\ ~\E i \in 1..Len(PlayersBefore) :
            PlayersBefore[i].id = GetObjId(event.player))
    => LET new == OnlyCall(trace, "hook", "OnPlayerJoinGame")
       IN  /\ new # Undefined
           /\ trace[Len(trace)].kind = "hook"
           /\ heap[new].player = event.player
           /\ \A k \in 1..Len(trace) :
                 trace[k].kind \in {"emit", "listener"} =>
                     /\ k < Len(trace)
                     /\ trace[k].lp = new
                     /\ getById(trace[k].players, GetObjId(event.player))
                        = new
                     /\ new \in DOMAIN trace[k].listenersOf
                     /\ trace[k].listenersOf[new] = <<CtorListener(new)>>

\* C19 witness: a peer's OnPlayerJoinGame listener runs in the join of a new
\* player, before the hook
PeerListenerRunsOnJoin ==
    /\ event.name = "OnPlayerJoinGame"
    /\ Len(trace) >= 3
    /\ trace[Len(trace) - 1].kind = "listener"
    /\ trace[Len(trace)].kind = "hook"

\* C20: createPlayerManager is called only by a join made while there is no
\* manager, once, and that join sets the manager; a manager that exists is
\* never dropped or replaced, and a join keeps every entry the registry
\* had.
ManagerCreatedOnce ==
    [][/\ playerManager.defined => playerManager'.defined
       /\ (/\ event = Idle
           /\ \E k \in 1..Len(trace') :
                 trace'[k].name = "createPlayerManager")
          => /\ ~playerManager.defined
             /\ event'.name = "OnPlayerJoinGame"
       /\ (~playerManager.defined /\ playerManager'.defined)
          => /\ event'.name = "OnPlayerJoinGame"
             /\ Cardinality({ k \in 1..Len(trace') :
                   trace'[k].name = "createPlayerManager" }) = 1
       /\ (event = Idle /\ event'.name = "OnPlayerJoinGame")
          => /\ Len(playerManager'.players) >= Len(playerManager.players)
             /\ \A i \in 1..Len(playerManager.players) :
                   playerManager'.players[i] = playerManager.players[i]
      ]_vars

\* C20 witness: a join adds a third player to the manager the first join
\* created, without a call of createPlayerManager
ThirdJoinKeepsManager ==
    /\ event.name = "OnPlayerJoinGame"
    /\ before.playerManager.defined
    /\ Len(PlayersBefore) = 2
    /\ Len(playerManager.players) = 3
    /\ Calls_("create") = <<trace[1]>>
    /\ trace[1].name = "createPlayer"

\* C21 as stated: the handle of every registry entry passes the host's
\* liveness check.
NoStaleEntry ==
    \A i \in 1..Len(playerManager.players) :
        valid[heap[playerManager.players[i].lp].player]

\* C21 amended: the registry may hold entries whose handle the host has
\* invalidated, but no entry point with players hands such an entry to a
\* listener or a hook: the acting player and the other player of every call
\* are the entries of handles that passed the liveness check in that call.
NoDispatchThroughStaleHandle ==
    event.name \in PerPlayerEntryPoints
    => \A k \in 1..Len(trace) :
           trace[k].kind \in {"emit", "listener", "hook"} =>
               /\ valid[event.player]
               /\ (IF trace[k].kind = "hook"
                   THEN trace[k].lp
                   ELSE trace[k].subject)
                  = getById(PlayersBefore, GetObjId(event.player))
               /\ trace[k].other # Undefined =>
                     /\ valid[event.other]
                     /\ trace[k].other
                        = getById(PlayersBefore, GetObjId(event.other))

\* C21 witness: a player acts on a registered player whose handle the host
\* has invalidated; the listener and the hook get no other player
StaleOtherNotPassed ==
    /\ event.name \in TwoPlayerEntryPoints
    /\ ~valid[event.other]
    /\ getById(playerManager.players, GetObjId(event.other)) # Undefined
    /\ Len(Calls_("listener")) > 0
    /\ Len(Calls_("hook")) = 1
    /\ \A k \in 1..Len(trace) : trace[k].other = Undefined

\* C22: an entry point with one player dispatches (emits on a bus, calls a
\* hook) if and only if there is a manager, the handle passes the liveness
\* check and its id has an entry, and then to that entry's player; a live
\* handle whose id has no entry gives no call and no change.
GetResolvesLiveRegistered ==
    event.name \in SinglePlayerEntryPoints
    => LET id == GetObjId(event.player)
           entry == getById(PlayersBefore, id)
           found == /\ before.playerManager.defined
                    /\ valid[event.player]
                    /\ entry # Undefined
       IN  /\ found <=> Calls_("hook") # <<>>
           /\ found <=> Calls_("emit") # <<>>
           /\ \A k \in 1..Len(trace) :
                 /\ trace[k].kind = "hook" => trace[k].lp = entry
                 /\ trace[k].kind \in {"emit", "listener"}
                       => trace[k].subject = entry
           /\ (valid[event.player] /\ entry = Undefined)
              => /\ trace = <<>>
                 /\ playerManager = before.playerManager
                 /\ heap = before.heap

\* C22 witness: a live handle that never joined raises an event while other
\* players are registered
LiveHandleNeverJoined ==
    /\ event.name \in SinglePlayerEntryPoints
    /\ valid[event.player]
    /\ trace = <<>>
    /\ Len(playerManager.players) = 2
    /\ \A i \in 1..Len(heap) : heap[i].player # event.player

\* C23: a leave of an id whose entry's handle the host has invalidated
\* still calls the leave hook, once, with the entry's player, and removes
\* the entry.
LeaveIgnoresLiveness ==
    (/\ event.name = "OnPlayerLeaveGame"
     /\ \E i \in 1..Len(PlayersBefore) :
            /\ PlayersBefore[i].id = event.number
            /\ ~valid[before.heap[PlayersBefore[i].lp].player])
    => /\ ~threw
       /\ Len(Calls_("hook")) = 1
       /\ Calls_("hook")[1].name = "OnPlayerLeaveGame"
       /\ Calls_("hook")[1].lp = MapGet(PlayersBefore, event.number)
       /\ ~MapHas(playerManager.players, event.number)
       /\ Len(playerManager.players) = Len(PlayersBefore) - 1

\* C23 witness: the leave of a player whose handle is invalid, while a
\* player with a live handle stays registered
LeaveOfInvalidHandle ==
    /\ event.name = "OnPlayerLeaveGame"
    /\ Len(trace) = 1
    /\ ~valid[heap[trace[1].lp].player]
    /\ Len(playerManager.players) = 1
    /\ valid[heap[playerManager.players[1].lp].player]

\* C24: an emit on a player or on the mode whose callbacks leave the bus
\* alone calls the published capability, and no other, of each
\* subscription that implements it, once per subscription, in subscription
\* order and with the published arguments; the other subscriptions are
\* skipped, nothing raises and the subscriptions stay as they were.
EmitCallsSubscribersInOrder ==
    (EmitRan /\ CallbackOps \subseteq {"none"})
    => LET capable == Capable(Subscribed, Published)
       IN  /\ ~threw
           /\ Len(Invoked) = Len(capable)
           /\ \A k \in 1..Len(capable) :
                 /\ Invoked[k].listener = capable[k]
                 /\ Invoked[k].name = Published
                 /\ Invoked[k].args = PublishedArgs
                 /\ event.name = "emit" => Invoked[k].subject = event.lp
           /\ trace[1].kind \in {"emit", "modeEmit"}
           /\ \A k \in 1..Len(capable) : trace[k + 1] = Invoked[k]
           /\ SubscribedNow = Subscribed

\* C24 witness: an emit of OnPlayerUndeploy with an argument on a player
\* with the constructor's listener, which does not implement it, and two
\* plain listeners
EmitSkipsAndCallsTwo ==
    /\ event.name = "emit"
    /\ Published = "OnPlayerUndeploy"
    /\ Len(PublishedArgs) = 1
    /\ Len(Subscribed) = 3
    /\ Subscribed[2] # Subscribed[3]
    /\ Len(Invoked) = 2

\* C25: removeListener on a player or on the mode leaves exactly the
\* subscriptions of the other listener objects, those with the same
\* callbacks included, in the order they had; when the object is not
\* subscribed the list is unchanged.
RemoveByIdentity ==
    event.name \in {"removeListener", "modeRemoveListener"}
    => LET old == IF event.name = "removeListener"
                  THEN before.heap[event.lp].listeners
                  ELSE before.listeners
           new == IF event.name = "removeListener"
                  THEN heap[event.lp].listeners
                  ELSE listeners
           keep == { i \in 1..Len(old) : old[i] # event.listener }
           nth(j) == CHOOSE i \in keep :
                         Cardinality({ m \in keep : m <= i }) = j
       IN  /\ Len(new) = Cardinality(keep)
           /\ \A j \in 1..Len(new) : new[j] = old[nth(j)]
           /\ \A j \in 1..Len(new) : new[j] # event.listener
           /\ keep = 1..Len(old) => new = old
           /\ trace = <<>>
           /\ ~threw
           /\ event.name = "removeListener"
                 => /\ listeners = before.listeners
                    /\ \A i \in 1..Len(heap) :
                          i # event.lp => heap[i] = before.heap[i]
           /\ event.name = "modeRemoveListener" => heap = before.heap

\* C25 witness: the first of two plain listener objects with the same
\* callbacks is removed from a player; the constructor's listener and the
\* second object stay, in that order
RemovedOneOfTwoAlike ==
    /\ event.name = "removeListener"
    /\ event.listener = <<"user", 1>>
    /\ before.heap[event.lp].listeners
       = <<CtorListener(event.lp), <<"user", 1>>, <<"user", 2>>>>
    /\ heap[event.lp].listeners = <<CtorListener(event.lp), <<"user", 2>>>>

\* C27: in every emit, whatever its callbacks unsubscribe, the
\* subscriptions that implemented the capability when the emit started are
\* all called, in their order and before any other, those unsubscribed
\* before they were reached included; and when no callback subscribes, the
\* unsubscribed objects are no longer subscribed afterwards, so that the
\* next emit skips them.
UnsubscribeDuringEmitTakesEffectNext ==
    EmitRan
    => LET capable == Capable(Subscribed, Published)
           removed == { Effect(capable[k]).target :
                          k \in { m \in 1..Len(capable) :
                                    Effect(capable[m]).op = "remove" } }
       IN  /\ Len(Invoked) >= Len(capable)
           /\ \A k \in 1..Len(capable) :
                 Invoked[k].listener = capable[k]
           /\ CallbackOps \subseteq {"none", "remove"}
                 => /\ Len(Invoked) = Len(capable)
                    /\ SubscribedNow
                       = SelectSeq(Subscribed, LAMBDA x : x \notin removed)

\* C27 witness: the callback of the second listener of a player
\* unsubscribes the third, which is still called in this emit and is not
\* subscribed afterwards
UnsubscribedStillCalled ==
    /\ event.name = "emit"
    /\ Len(Subscribed) = 3
    /\ Effect(Subscribed[2]).op = "remove"
    /\ Effect(Subscribed[2]).target = Subscribed[3]
    /\ Len(Invoked) = 3
    /\ Invoked[3].listener = Subscribed[3]
    /\ Len(SubscribedNow) = 2

\* C28: an emit calls the subscriptions that implemented the capability
\* when it started and no listener subscribed by a callback while it runs:
\* over n subscriptions it makes at most n listener calls.
SubscribeDuringEmitTakesEffectNext ==
    EmitRan
    => LET capable == Capable(Subscribed, Published)
       IN  /\ Len(Invoked) <= Len(Subscribed)
           /\ Len(Invoked) = Len(capable)
           /\ \A k \in 1..Len(Invoked) :
                 Invoked[k].listener = capable[k]

\* C26 as stated: an entry point without player context calls its hook
\* once with the arguments it received and leaves the registry, every
\* player's listener list and the mode's list of observers unchanged.
NoContextLeavesAllUnchanged ==
    event.name \in NoContextEntryPoints
    => ForwardedToHook /\ listeners = before.listeners

\* C26 amended: an entry point without player context calls its hook once
\* with the arguments it received, in any state, and leaves the manager,
\* the registry and every player's listener list unchanged; the mode's
\* list of observers is unchanged too, except by OnGameModeStarted, whose
\* hook appends one new observer of OngoingGlobal to it.
NoContextForwardsToHook ==
    event.name \in NoContextEntryPoints
    => /\ ForwardedToHook
       /\ event.name # "OnGameModeStarted" => listeners = before.listeners
       /\ event.name = "OnGameModeStarted"
            => \E l \in { listeners[k] : k \in 1..Len(listeners) } :
                  /\ listeners = Append(before.listeners, l)
                  /\ \A k \in 1..Len(before.listeners) :
                        before.listeners[k] # l
                  /\ Caps(l) = {"OngoingGlobal"}

\* C26 witness: a zone size change with its two arguments is forwarded
\* before the first join, when there is no manager yet
ForwardedBeforeFirstJoin ==
    /\ event.name = "OnRingOfFireZoneSizeChange"
    /\ ~playerManager.defined
    /\ Len(trace) = 1
    /\ trace[1].args = event.args
    /\ Len(event.args) = 2

\* C29: a join keeps every entry the registry had, with its instance, adds
\* at most an entry for the joining id and leaves the listener list of
\* every player that existed unchanged; a leave removes the entry of the
\* leaving id, if there is one, and nothing else, and changes the listener
\* list of that player only; every other entry point leaves the manager,
\* the entries, their instances and every player's listener list as they
\* were.
RegistryChangesOnlyByJoinAndLeave ==
    event # Idle
    => LET old == PlayersBefore
           new == playerManager.players
           left == { old[i].lp : i \in { k \in 1..Len(old) :
                                           old[k].id = event.number } }
       IN  CASE event.name = "OnPlayerJoinGame" ->
                  /\ Len(new) \in {Len(old), Len(old) + 1}
                  /\ \A i \in 1..Len(old) : new[i] = old[i]
                  /\ Len(new) > Len(old)
                       => new[Len(new)].id = GetObjId(event.player)
                  /\ Len(heap) >= Len(before.heap)
                  /\ \A inst \in 1..Len(before.heap) :
                        heap[inst] = before.heap[inst]
             [] event.name = "OnPlayerLeaveGame" ->
                  /\ new = SelectSeq(old, LAMBDA e : e.id # event.number)
                  /\ Len(heap) = Len(before.heap)
                  /\ \A inst \in 1..Len(heap) :
                        inst \notin left => heap[inst] = before.heap[inst]
             [] OTHER ->
                  /\ playerManager = before.playerManager
                  /\ heap = before.heap

\* C29 witness: a leave removes one of three entries and keeps the other
\* two, whose players keep their listeners
LeaveRemovesOnlyItsId ==
    /\ event.name = "OnPlayerLeaveGame"
    /\ Len(PlayersBefore) = 3
    /\ Len(playerManager.players) = 2
    /\ \A i \in 1..2 :
          heap[playerManager.players[i].lp].listeners # <<>>

\* C30: every emit and every listener call made by an entry point with an
\* acting player is on the bus of the player its handle resolves to: no
\* listener of the other player of a two-player event or of a third player
\* is called; and a leave calls no listener at all.
EventIsolation ==
    /\ event.name \in PerPlayerEntryPoints
       => \A k \in 1..Len(trace) :
             trace[k].kind \in {"emit", "listener"}
             => /\ Resolves(event.player)
                /\ trace[k].subject = PlayerOf(event.player)
    /\ event.name = "OnPlayerLeaveGame"
       => \A k \in 1..Len(trace) : trace[k].kind \notin {"emit", "listener"}

\* C30 witness: a two-player event whose acting player and other player
\* are different registered players, both with a listener for the event,
\* while a third player is registered too; a listener of the acting
\* player is called
OtherPlayerHasListener ==
    /\ event.name \in TwoPlayerEntryPoints
    /\ Resolves(event.player)
    /\ Resolves(event.other)
    /\ PlayerOf(event.other) # PlayerOf(event.player)
    /\ Len(PlayersBefore) = 3
    /\ Capable(heap[PlayerOf(event.other)].listeners, event.name) # <<>>
    /\ Calls_("listener") # <<>>

JoinHookOncePerJoin ==
    event.name = "OnPlayerJoinGame"
    => LET id == GetObjId(event.player)
           hooks == Calls_("hook")
       IN  /\ ~threw
           /\ Len(hooks) = 1
           /\ trace[Len(trace)] = hooks[1]
           /\ hooks[1].name = "OnPlayerJoinGame"
           /\ hooks[1].lp # Undefined
           /\ hooks[1].lp = getById(playerManager.players, id)
           /\ MapHas(PlayersBefore, id)
                => /\ hooks[1].lp = getById(PlayersBefore, id)
                   /\ Len(heap) = Len(before.heap)
                   /\ \A k \in 1..Len(trace) :
                         /\ trace[k].name # "createPlayer"
                         /\ trace[k].kind \notin {"emit", "listener"}

\* C32 witness: the join of an id registered together with two peers calls
\* the hook with the player that was registered
DuplicateJoinCallsHook ==
    /\ event.name = "OnPlayerJoinGame"
    /\ Len(PlayersBefore) = 3
    /\ Calls_("hook") # <<>>
    /\ Calls_("hook")[1].lp = getById(PlayersBefore, GetObjId(event.player))

\* C33: a per-player tick never raises; while there is no manager it makes
\* no call and creates none; when its handle resolves it publishes
\* OngoingPlayer on that player's bus, calls each subscription of the
\* player that implements OngoingPlayer once, in order, and then the
\* OngoingPlayer hook once with the player.
TickSilentBeforeJoin ==
    event.name = "OngoingPlayer"
    => /\ ~threw
       /\ ~before.playerManager.defined
            => /\ trace = <<>>
               /\ ~playerManager.defined
               /\ playerManager.players = <<>>
               /\ heap = <<>>
       /\ Resolves(event.player)
            => LET lp == PlayerOf(event.player)
                   capable == Capable(before.heap[lp].listeners,
                                      "OngoingPlayer")
               IN  /\ Calls_("listener")
                      = [k \in 1..Len(capable) |->
                           Call("listener", "OngoingPlayer", lp, capable[k],
                                Undefined, Undefined, <<>>, PlayersBefore,
                                before.heap)]
                   /\ Calls_("hook")
                      = <<Hook("OngoingPlayer", lp, Undefined, <<>>,
                               PlayersBefore, before.heap)>>
                   /\ trace[Len(trace)].kind = "hook"
                   /\ Len(trace) = Len(capable) + 2

\* C33 witness: a tick for a live handle has returned while there is still
\* no manager
TickBeforeFirstJoin ==
    /\ event.name = "OngoingPlayer"
    /\ valid[event.player]
    /\ ~playerManager.defined
    /\ ~threw

\* C34: in a two-player event whose other handle is live and has the id of
\* the acting player, which resolves, the hook is called and the other
\* player passed to it and to every listener is the acting player's own
\* instance.
SelfIsOtherPlayer ==
    (/\ event.name \in TwoPlayerEntryPoints
     /\ Resolves(event.player)
     /\ valid[event.other]
     /\ GetObjId(event.other) = GetObjId(event.player))
    => LET lp == PlayerOf(event.player)
       IN  /\ Calls_("hook") # <<>>
           /\ \A k \in 1..Len(trace) :
                 /\ trace[k].other = lp
                 /\ trace[k].kind = "hook" => trace[k].lp = lp
                 /\ trace[k].kind \in {"emit", "listener"}
                      => trace[k].subject = lp

\* C34 witness: a player dies by its own hand and a listener of it is told
SelfInflictedDeath ==
    /\ event.name = "OnPlayerDied"
    /\ event.other = event.player
    /\ Calls_("listener") # <<>>
    /\ Calls_("listener")[1].other = PlayerOf(event.player)

\* C35: an emit calls a listener object that implements the published
\* capability at least as many times as it was subscribed when the emit
\* started, and exactly as many when no callback subscribes; after
\* removeListener not one subscription of the object is left, however
\* many there were.
DuplicatesCalledAndRemovedTogether ==
    /\ EmitRan
       => \A l \in { Subscribed[k] : k \in 1..Len(Subscribed) } :
             LET n == CountSubscriptions(Subscribed, l, Published)
                 calls == Cardinality({ k \in 1..Len(Invoked) :
                                          Invoked[k].listener = l })
             IN  /\ calls >= n
                 /\ CallbackOps \subseteq {"none", "remove"} => calls = n
    /\ event.name = "removeListener"
       => Cardinality({ k \in 1..Len(heap[event.lp].listeners) :
                          heap[event.lp].listeners[k] = event.listener }) = 0
    /\ event.name = "modeRemoveListener"
       => Cardinality({ k \in 1..Len(listeners) :
                          listeners[k] = event.listener }) = 0

\* C35 witness: removeListener on a player that held two subscriptions of
\* the object leaves none of them
BothSubscriptionsRemoved ==
    /\ event.name = "removeListener"
    /\ Cardinality({ k \in 1..Len(before.heap[event.lp].listeners) :
          before.heap[event.lp].listeners[k] = event.listener }) = 2
    /\ \A k \in 1..Len(heap[event.lp].listeners) :
          heap[event.lp].listeners[k] # event.listener

\* the arguments the router function that is running received, in order
Received ==
    IF event.name \in TwoPlayerEntryPoints
    THEN <<event.player, event.other>> \o event.args
    ELSE IF event.name \in SinglePlayerEntryPoints \cup {"OnPlayerJoinGame"}
    THEN <<event.player>> \o event.args
    ELSE IF event.name = "OnPlayerLeaveGame"
    THEN <<event.number>>
    ELSE event.args

\* C36: while a call of the engine runs, one router function is running:
\* the one with the name of the exported function called, and it received
\* the arguments of that call, all of them and in their order; between
\* calls none is running.
MainForwardsUnchanged ==
    /\ event = Idle <=> lastCalls = <<>>
    /\ event # Idle
       => /\ Len(lastCalls) = 1
          /\ lastCalls[1].name \in MainNames
          /\ event.name = lastCalls[1].name
          /\ Received = lastCalls[1].args

\* C36 witness: OnPlayerDamaged called with two different handles and two
\* different payload values reached the hook
DamageForwarded ==
    /\ event.name = "OnPlayerDamaged"
    /\ Len(lastCalls) = 1
    /\ Len(lastCalls[1].args) = 4
    /\ lastCalls[1].args[1] # lastCalls[1].args[2]
    /\ lastCalls[1].args[3] # lastCalls[1].args[4]
    /\ Calls_("hook") # <<>>
    /\ Calls_("hook")[1].args = SubSeq(lastCalls[1].args, 3, 4)

\* C37: for every Example_FooClass, two consecutive runs of the throttled
\* action are at least the interval of 4000 ms apart, and lastTime is the
\* reading of the last tick on which the action ran (0 while it has not
\* run): it changes on those ticks only.
ThrottledToInterval ==
    /\ Len(ranAt) = Len(lastTime)
    /\ \A n \in 1..Len(lastTime) :
          /\ Len(ranAt[n]) = 2 => ranAt[n][2] - ranAt[n][1] >= 4000
          /\ lastTime[n] = IF ranAt[n] = <<>>
                           THEN 0
                           ELSE ranAt[n][Len(ranAt[n])]
          /\ lastTime[n] <= clock

\* C37 witness: the action of an Example_FooClass has run twice, exactly
\* 4000 ms apart, and the tick that just ran, less than 4000 ms after the
\* second run, called its listener without running it
TickSkippedAfterTwoRuns ==
    /\ event.name = "OngoingGlobal"
    /\ Len(ranAt) >= 1
    /\ Len(ranAt[1]) = 2
    /\ ranAt[1][2] - ranAt[1][1] = 4000
    /\ clock > ranAt[1][2]
    /\ clock - ranAt[1][2] < 4000
    /\ \E k \in 1..Len(trace) : trace[k].listener = FooListener(1)

====
